---- MODULE Spec2Model ----
(***************************************************************************)
(* Meeting organizer: the admin list endpoint's response normalizer        *)
(* (webhook variant), the spreadsheet row decoder of GoogleSheetsService   *)
(* and the admin action endpoint with the dashboard's confirmAction.       *)
(***************************************************************************)
EXTENDS Integers, Sequences, FiniteSets, TLC

(***************************************************************************)
(* JSON values.  A value is a record with a tag t and a content v; an      *)
(* object keeps its properties as a sequence of key/value pairs in         *)
(* property (insertion) order, which is the order Object.entries yields.   *)
(***************************************************************************)
Undef == [t |-> "undef", v |-> 0]
Null == [t |-> "null", v |-> 0]
Str(s) == [t |-> "str", v |-> s]
Num(n) == [t |-> "num", v |-> n]
Arr(s) == [t |-> "arr", v |-> s]
Obj(ps) == [t |-> "obj", v |-> ps]
KV(key, val) == [k |-> key, v |-> val]

\* Array.isArray(x)
IsArray(x) == x.t = "arr"

\* typeof x === 'object' (true of objects, arrays and null)
TypeofObject(x) == x.t \in {"obj", "arr", "null"}

\* JavaScript truthiness: undefined, null, false, "" and 0 are falsy
Truthy(x) ==
    CASE x.t = "undef" -> FALSE
      [] x.t = "null" -> FALSE
      [] x.t = "str" -> x.v # ""
      [] x.t = "num" -> x.v # 0
      [] x.t = "bool" -> x.v
      [] OTHER -> TRUE

\* x.key for a value that is not null or undefined: the property's value,
\* undefined when the value is no object or has no such property
Prop(x, key) ==
    IF x.t = "obj" /\ \E i \in 1..Len(x.v) : x.v[i].k = key
    THEN x.v[CHOOSE i \in 1..Len(x.v) : x.v[i].k = key].v
    ELSE Undef

\* x === s for a string literal s
IsStr(x, s) == x.t = "str" /\ x.v = s

\* a || b
OrElse(a, b) == IF Truthy(a) THEN a ELSE b

(***************************************************************************)
(* Response Normalizer of GET /api/admin/meetings (webhook variant).       *)
(***************************************************************************)

\* The outcome of an extraction; threw marks a TypeError raised on the way
Extracted(ms, stats, msg) ==
    [threw |-> FALSE, meetings |-> ms, statistics |-> stats, message |-> msg]

Thrown ==
    [threw |-> TRUE, meetings |-> <<>>, statistics |-> Obj(<<>>), message |-> Str("")]

\* HasArray with the result branch left out
HasArrayNoResult(obj, key) ==
    Truthy(Prop(obj, key)) /\ IsArray(Prop(obj, key)) /\ key # "result"

\* obj.key && Array.isArray(obj.key)
HasArray(obj, key) == Truthy(Prop(obj, key)) /\ IsArray(Prop(obj, key))

\* LooksLikeMeeting without the firstItem && guard: reading a property of
\* null throws
LooksLikeMeetingUnguarded(firstItem) ==
    IF firstItem.t \in {"null", "undef"} THEN "throw"
    ELSE IF \/ Truthy(Prop(firstItem, "requestId"))
            \/ Truthy(Prop(firstItem, "userName"))
            \/ Truthy(Prop(firstItem, "meetingPurpose"))
         THEN "yes" ELSE "no"

\* firstItem && (firstItem.requestId || firstItem.userName ||
\* firstItem.meetingPurpose): "yes", "no", or "throw" for a property read
\* of null or undefined
LooksLikeMeeting(firstItem) ==
    IF ~Truthy(firstItem) THEN "no"
    ELSE IF \/ Truthy(Prop(firstItem, "requestId"))
            \/ Truthy(Prop(firstItem, "userName"))
            \/ Truthy(Prop(firstItem, "meetingPurpose"))
         THEN "yes" ELSE "no"

\* The for loop over Object.entries(actualData), from entry i on
RECURSIVE AutoDetectFrom(_, _)
AutoDetectFrom(ps, i) ==
    IF i > Len(ps) THEN Extracted(<<>>, Obj(<<>>), Str(""))
    ELSE LET value == ps[i].v IN
         IF IsArray(value) /\ Len(value.v) > 0
         THEN LET verdict == LooksLikeMeeting(value.v[1]) IN
              CASE verdict = "throw" -> Thrown
                [] verdict = "yes" -> Extracted(value.v, Obj(<<>>), Str(""))
                [] OTHER -> AutoDetectFrom(ps, i + 1)
         ELSE AutoDetectFrom(ps, i + 1)

\* The else branch of the chain: scan the properties for a meetings array
AutoDetect(actualData) == AutoDetectFrom(actualData.v, 1)

\* DescendJson with a typeof test that never holds (=== 'array')
DescendJsonNever(actualData) == actualData

\* if (actualData.json && typeof actualData.json === 'object')
\*     actualData = actualData.json
DescendJson(actualData) ==
    IF Truthy(Prop(actualData, "json")) /\ TypeofObject(Prop(actualData, "json"))
    THEN Prop(actualData, "json")
    ELSE actualData

\* The if/else-if chain over the (possibly unwrapped) object
ExtractMeetings(actualData) ==
    IF IsArray(actualData) THEN Extracted(actualData.v, Obj(<<>>), Str(""))
    ELSE IF HasArray(actualData, "meetings")
    THEN Extracted(Prop(actualData, "meetings").v,
                   OrElse(Prop(actualData, "statistics"), Obj(<<>>)),
                   OrElse(Prop(actualData, "message"), Str("")))
    ELSE IF HasArray(actualData, "data")
    THEN Extracted(Prop(actualData, "data").v, Obj(<<>>), Str(""))
    ELSE IF HasArray(actualData, "items")
    THEN Extracted(Prop(actualData, "items").v, Obj(<<>>), Str(""))
    ELSE IF HasArray(actualData, "response")
    THEN Extracted(Prop(actualData, "response").v, Obj(<<>>), Str(""))
    ELSE IF HasArray(actualData, "result")
    THEN Extracted(Prop(actualData, "result").v, Obj(<<>>), Str(""))
    ELSE IF IsStr(Prop(actualData, "message"), "Workflow was started")
    THEN Extracted(<<>>, Obj(<<>>), Str(""))
    ELSE IF Truthy(Prop(actualData, "requestId")) \/ Truthy(Prop(actualData, "id"))
    THEN Extracted(<<actualData>>, Obj(<<>>), Str(""))
    ELSE AutoDetect(actualData)

\* The block that fills meetings, statistics and message from response.data
NormalizeResponse(data) ==
    IF ~Truthy(data) THEN Extracted(<<>>, Obj(<<>>), Str(""))
    ELSE IF IsArray(data) THEN Extracted(data.v, Obj(<<>>), Str(""))
    ELSE IF TypeofObject(data) THEN ExtractMeetings(DescendJson(data))
    ELSE Extracted(<<>>, Obj(<<>>), Str(""))

\* No response sent yet
NoResponse ==
    [status |-> 0, success |-> FALSE, meetings |-> <<>>, statistics |-> Undef,
     message |-> Undef, error |-> Undef]

\* res.status(401).json({ error: 'Unauthorized access' })
Unauthorized ==
    [status |-> 401, success |-> FALSE, meetings |-> <<>>, statistics |-> Undef,
     message |-> Undef, error |-> Str("Unauthorized access")]

\* The reply of the webhook: a parsed body, or a failed request
ReplyOk(data) == [ok |-> TRUE, data |-> data]
ReplyFailed == [ok |-> FALSE, data |-> Undef]

\* The response the handler of GET /api/admin/meetings sends
AdminMeetingsResponse(configured, reply) ==
    IF ~configured
    THEN [status |-> 200, success |-> TRUE, meetings |-> <<>>, statistics |-> Undef,
          message |-> Str("n8n webhook not configured"), error |-> Undef]
    ELSE LET n == NormalizeResponse(reply.data) IN
         IF ~reply.ok \/ n.threw
         THEN [status |-> 200, success |-> FALSE, meetings |-> <<>>,
               statistics |-> Undef, message |-> Undef,
               error |-> Str("Failed to fetch meetings from n8n")]
         ELSE [status |-> 200, success |-> TRUE, meetings |-> n.meetings,
               statistics |-> n.statistics,
               message |-> OrElse(n.message,
                   Str("Successfully loaded " \o ToString(Len(n.meetings)) \o " meetings")),
               error |-> Undef]

(***************************************************************************)
(* GoogleSheetsService.fetchMeetingRequests: the Row Decoder.              *)
(* Strings are atomic; trim, toLowerCase and the removal of quotes and     *)
(* underscores are tables over the strings the sheets of the model hold.   *)
(***************************************************************************)

\* s.trim()
Trim(s) ==
    CASE s = " " -> ""
      [] s = " Ann " -> "Ann"
      [] OTHER -> s

\* s.toLowerCase()
ToLower(s) ==
    CASE s = "Pending" -> "pending"
      [] s = "Approved" -> "approved"
      [] s = "Cancelled" -> "cancelled"
      [] s = "High" -> "high"
      [] s = "Ann" -> "ann"
      [] s = "Demo" -> "demo"
      [] s = "R1" -> "r1"
      [] s = "PENDING" -> "pending"
      [] s = "Rejected" -> "rejected"
      [] s = "Rescheduled" -> "rescheduled"
      [] s = "Total" -> "total"
      [] s = "Online" -> "online"
      [] s = "Offline" -> "offline"
      [] s = "Hybrid" -> "hybrid"
      [] OTHER -> s

\* cell.replace(/"/g, '')
Unquote(s) ==
    CASE s = "\"Ann\"" -> "Ann"
      [] s = "\"\"" -> ""
      [] OTHER -> s

\* header.toLowerCase().replace(/_/g, '')
NormalizeHeader(header) ==
    CASE header \in {"request_id", "REQUEST_ID", "Request_Id"} -> "requestid"
      [] header \in {"user_name", "USER_NAME"} -> "username"
      [] header \in {"STATUS", "Status_"} -> "status"
      [] header \in {"PRIORITY", "priority"} -> "priority"
      [] header = "Notes" -> "notes"
      [] OTHER -> header

\* The case labels of switch (header): the field the cell is stored under,
\* "" when no label matches (the default branch)
CanonicalField(header) ==
    CASE header \in {"Request_ID", "requestId"} -> "requestId"
      [] header \in {"Timestamp", "timestamp"} -> "timestamp"
      [] header \in {"User_Name", "userName"} -> "userName"
      [] header \in {"User_Email", "userEmail"} -> "userEmail"
      [] header \in {"User_Phone", "userPhone"} -> "userPhone"
      [] header \in {"User_Company", "userCompany"} -> "userCompany"
      [] header = "userPosition" -> "userPosition"
      [] header \in {"Meeting_Type", "meetingType"} -> "meetingType"
      [] header \in {"Meeting_Purpose", "meetingPurpose"} -> "meetingPurpose"
      [] header \in {"Preferred_Date", "preferredDate"} -> "preferredDate"
      [] header \in {"Preferred_Time", "preferredTime"} -> "preferredTime"
      [] header \in {"Duration_Minutes", "estimatedDuration"} -> "estimatedDuration"
      [] header \in {"Meeting_Details", "meetingDescription"} -> "meetingDescription"
      [] header \in {"Status", "status"} -> "status"
      [] header \in {"Admin_Response", "adminNotes", "adminEmail"} -> "adminNotes"
      [] header \in {"Confirmed_Date", "confirmedDate"} -> "confirmedDate"
      [] header \in {"Confirmed_Time", "confirmedTime"} -> "confirmedTime"
      [] header \in {"Priority", "urgency"} -> "urgency"
      [] header \in {"Location", "location"} -> "location"
      [] header \in {"Meeting_Link", "meetingLink"} -> "meetingLink"
      [] header \in {"Created_Date", "createdDate"} -> "createdDate"
      [] header \in {"Last_Updated", "lastUpdated"} -> "lastUpdated"
      [] header = "additionalNotes" -> "additionalNotes"
      [] header = "attachments" -> "attachments"
      [] header = "proposedStartTime" -> "proposedStartTime"
      [] header = "proposedEndTime" -> "proposedEndTime"
      [] OTHER -> ""

\* meeting[key] = val: an existing property keeps its place
SetProp(obj, key, val) ==
    IF \E i \in 1..Len(obj.v) : obj.v[i].k = key
    THEN Obj([i \in 1..Len(obj.v) |->
                 IF obj.v[i].k = key THEN KV(key, val) ELSE obj.v[i]])
    ELSE Obj(Append(obj.v, KV(key, val)))

\* const value = row[colIndex] || ''
CellValue(row, colIndex) ==
    IF colIndex <= Len(row) /\ row[colIndex] # "" THEN row[colIndex] ELSE ""

\* The body of headers.forEach for one column
StoreCell(meeting, header, value) ==
    LET field == CanonicalField(header) IN
    CASE field = "status" ->
            SetProp(meeting, "status", Str(IF value # "" THEN value ELSE "Pending"))
      [] field = "urgency" ->
            SetProp(meeting, "urgency",
                    Str(IF value # "" THEN ToLower(value) ELSE "medium"))
      [] field = "" -> SetProp(meeting, NormalizeHeader(header), Str(value))
      [] OTHER -> SetProp(meeting, field, Str(value))

\* headers.forEach((header, colIndex) => ...) from column colIndex on
RECURSIVE StoreCellsFrom(_, _, _, _)
StoreCellsFrom(meeting, headers, row, colIndex) ==
    IF colIndex > Len(headers) THEN meeting
    ELSE StoreCellsFrom(
             StoreCell(meeting, headers[colIndex], CellValue(row, colIndex)),
             headers, row, colIndex + 1)

\* new Date().toISOString()
NowIso == "2026-01-01T00:00:00.000Z"

\* Ensure required fields have default values
ApplyDefaults(meeting, index) ==
    LET withId == SetProp(meeting, "requestId",
                     OrElse(Prop(meeting, "requestId"),
                            Str("sheet_" \o ToString(index + 1))))
        withStatus == SetProp(withId, "status",
                         OrElse(Prop(withId, "status"), Str("Pending")))
    IN SetProp(withStatus, "timestamp",
           OrElse(Prop(withStatus, "timestamp"),
                  OrElse(Prop(withStatus, "createdDate"), Str(NowIso))))

\* The callback of dataRows.map((row, index) => ...), index counted from 0
DecodeRow(headers, row, index) ==
    ApplyDefaults(StoreCellsFrom(Obj(<<>>), headers, row, 1), index)

\* HasText without the trim
HasTextNoTrim(meeting, f) == Truthy(Prop(meeting, f))

\* meeting.f && meeting.f.trim() !== ''
HasText(meeting, f) == Truthy(Prop(meeting, f)) /\ Trim(Prop(meeting, f).v) # ""

\* The callback of meetings.filter: isValid
IsValidMeeting(meeting) ==
    HasText(meeting, "userName") /\ HasText(meeting, "userEmail")
        /\ HasText(meeting, "meetingPurpose")

\* rows -> validMeetings: headers, dataRows, map and filter
DecodeRows(rows) ==
    IF Len(rows) = 0 THEN <<>>
    ELSE LET headers == rows[1]
             dataRows == SubSeq(rows, 2, Len(rows))
             meetings == [i \in 1..Len(dataRows) |->
                             DecodeRow(headers, dataRows[i], i - 1)]
         IN SelectSeq(meetings, IsValidMeeting)

\* generateSampleData(): the three sample meetings
SampleMeeting(id, name, email, type, purpose, status, urgency) ==
    Obj(<<KV("requestId", Str(id)), KV("timestamp", Str(NowIso)),
          KV("userName", Str(name)), KV("userEmail", Str(email)),
          KV("meetingType", Str(type)), KV("meetingPurpose", Str(purpose)),
          KV("status", Str(status)), KV("urgency", Str(urgency))>>)

generateSampleData ==
    << SampleMeeting("sample_001", "John Doe", "john.doe@example.com", "Online",
                     "Project Discussion", "Pending", "medium"),
       SampleMeeting("sample_002", "Jane Smith", "jane.smith@company.com", "Offline",
                     "Contract Review", "Approved", "high"),
       SampleMeeting("sample_003", "Bob Johnson", "bob.johnson@startup.io", "Hybrid",
                     "Partnership Discussion", "Pending", "low") >>

\* csvData.split('\n').map(row => row.split(',').map(cell =>
\*     cell.replace(/"/g, '').trim()))
CleanCsv(lines) ==
    [i \in 1..Len(lines) |->
        [j \in 1..Len(lines[i]) |-> Trim(Unquote(lines[i][j]))]]

\* !csvData || csvData.trim() === '': nothing but blank lines
EmptyCsv(lines) ==
    \A i \in 1..Len(lines) : Len(lines[i]) = 1 /\ Trim(lines[i][1]) = ""

\* rows.filter(row => row.some(cell => cell && cell.length > 0))
NonEmptyRow(row) == \E j \in 1..Len(row) : row[j] # ""

\* The rows handed to the decoder (response.data.values), or a thrown error
\* on the way to them
SheetRows(configured, reply) ==
    IF ~configured \/ ~reply.ok THEN [threw |-> TRUE, rows |-> <<>>]
    ELSE IF reply.kind = "api" THEN [threw |-> FALSE, rows |-> reply.rows]
    ELSE IF EmptyCsv(reply.rows) THEN [threw |-> TRUE, rows |-> <<>>]
    ELSE LET validRows == SelectSeq(CleanCsv(reply.rows), NonEmptyRow) IN
         IF Len(validRows) = 0 THEN [threw |-> TRUE, rows |-> <<>>]
         ELSE [threw |-> FALSE, rows |-> validRows]

\* fetchMeetingRequests(): the decoded valid meetings, the sample data when
\* anything threw
fetchMeetingRequests(configured, reply) ==
    LET got == SheetRows(configured, reply) IN
    IF got.threw THEN generateSampleData ELSE DecodeRows(got.rows)

\* The stats object generateStatistics starts from
NewStats(meetings) ==
    [total |-> Len(meetings), pending |-> 0, approved |-> 0, rejected |-> 0,
     rescheduled |-> 0,
     byPriority |-> [high |-> 0, medium |-> 0, low |-> 0],
     byMeetingType |-> [online |-> 0, offline |-> 0, hybrid |-> 0]]

\* meeting.f ? meeting.f.toLowerCase() : fallback
LowerOr(meeting, f, fallback) ==
    IF Truthy(Prop(meeting, f)) THEN ToLower(Prop(meeting, f).v) ELSE fallback

\* The own properties of stats that stats.hasOwnProperty(status) can find
\* for a lower-case status
StatsOwnKeys == {"total", "pending", "approved", "rejected", "rescheduled"}

\* stats.hasOwnProperty(status)
CountableStatus(status) == status \in StatsOwnKeys

\* The callback of meetings.forEach in generateStatistics
CountMeeting(stats, meeting) ==
    LET status == LowerOr(meeting, "status", "pending")
        priority == LowerOr(meeting, "urgency", "medium")
        meetingType == LowerOr(meeting, "meetingType", "online")
        s1 == IF CountableStatus(status)
              THEN [stats EXCEPT ![status] = @ + 1] ELSE stats
        s2 == IF priority \in {"high", "medium", "low"}
              THEN [s1 EXCEPT !.byPriority[priority] = @ + 1] ELSE s1
    IN IF meetingType \in {"online", "offline", "hybrid"}
       THEN [s2 EXCEPT !.byMeetingType[meetingType] = @ + 1] ELSE s2

\* meetings.forEach from meeting i on
RECURSIVE CountFrom(_, _, _)
CountFrom(meetings, i, stats) ==
    IF i > Len(meetings) THEN stats
    ELSE CountFrom(meetings, i + 1, CountMeeting(stats, meetings[i]))

\* generateStatistics(meetings)
generateStatistics(meetings) == CountFrom(meetings, 1, NewStats(meetings))

\* The statistics object as it is serialized into a response
StatsJson(stats) ==
    Obj(<<KV("total", Num(stats.total)), KV("pending", Num(stats.pending)),
          KV("approved", Num(stats.approved)), KV("rejected", Num(stats.rejected)),
          KV("rescheduled", Num(stats.rescheduled))>>)

\* The response the handler of GET /api/admin/meetings sends in the
\* spreadsheet variant (fetchMeetingRequests catches every error itself, so
\* the handler's own catch block is not entered)
SheetsMeetingsResponse(configured, reply) ==
    IF ~configured
    THEN [status |-> 400, success |-> FALSE, meetings |-> <<>>, statistics |-> Undef,
          message |-> Str("Please set GOOGLE_SHEETS_ID in your environment variables"),
          error |-> Str("Google Sheets ID not configured")]
    ELSE LET meetings == fetchMeetingRequests(configured, reply) IN
         [status |-> 200, success |-> TRUE, meetings |-> meetings,
          statistics |-> StatsJson(generateStatistics(meetings)),
          message |-> Str("Successfully loaded " \o ToString(Len(meetings))
                              \o " meetings from Google Sheets"),
          error |-> Undef]

(***************************************************************************)
(* POST /api/admin/meeting/action and the dashboard's confirmAction.       *)
(* A missing body field and an empty one are both the empty string (both   *)
(* are falsy in the handler and in confirmAction).                         *)
(***************************************************************************)

\* The instant of new Date(`${newDate}T${newTime}`) on the clock of the model
InstantOf(newDate, newTime) ==
    CASE newDate = "2026-01-01" -> 1
      [] newDate = "2026-01-02" -> 2
      [] OTHER -> 0

validActions == {"approve", "reject", "reschedule"}

\* validActions.includes(action) with no test at all
ValidActionAny(action) == TRUE

\* validActions.includes(action)
ValidAction(action) == action \in validActions

\* The actionData object posted to the webhook
ActionData(body, stamp) ==
    [requestId |-> body.requestId, action |-> body.action,
     adminNotes |-> body.adminNotes, newDate |-> body.newDate,
     newTime |-> body.newTime, timestamp |-> stamp]

\* What the handler does with a request: the HTTP status it answers with and
\* the POSTs it issues to ADMIN_ACTION_WEBHOOK
AdminMeetingAction(isAdmin, configured, body, webhookOk, stamp) ==
    IF ~isAdmin THEN [status |-> 401, success |-> FALSE, posts |-> <<>>]
    ELSE IF body.requestId = "" \/ body.action = ""
    THEN [status |-> 400, success |-> FALSE, posts |-> <<>>]
    ELSE IF ~ValidAction(body.action)
    THEN [status |-> 400, success |-> FALSE, posts |-> <<>>]
    ELSE IF ~configured
    THEN [status |-> 500, success |-> FALSE, posts |-> <<>>]
    ELSE IF ~webhookOk
    THEN [status |-> 500, success |-> FALSE, posts |-> <<ActionData(body, stamp)>>]
    ELSE [status |-> 200, success |-> TRUE, posts |-> <<ActionData(body, stamp)>>]

\* actionData[key] = value.trim() for every entry of the form
TrimForm(form) ==
    [requestId |-> Trim(form.requestId), action |-> Trim(form.action),
     adminNotes |-> Trim(form.adminNotes), newDate |-> Trim(form.newDate),
     newTime |-> Trim(form.newTime)]

\* confirmAction's validation for reschedule: "" when the request may be
\* sent, else the alert shown
RescheduleAlert(actionData, clock) ==
    IF actionData.action # "reschedule" THEN ""
    ELSE IF actionData.newDate = "" \/ actionData.newTime = ""
    THEN "Please provide new date and time for rescheduling."
    ELSE IF InstantOf(actionData.newDate, actionData.newTime) <= clock
    THEN "Please select a future date and time."
    ELSE ""

(***************************************************************************)
(* Sessions: POST /api/admin/login, and POST /api/admin/sync-n8n (webhook  *)
(* variant), whose handler normalizes the webhook's reply by its own chain.*)
(***************************************************************************)

\* The handler of POST /api/admin/login: the status it answers with and
\* whether it sets req.session.isAdmin. An unset ADMIN_USERNAME or
\* ADMIN_PASSWORD is the empty string here: no accepted input equals it.
AdminLogin(env, username, password) ==
    IF username = "" \/ password = "" THEN [status |-> 400, grants |-> FALSE]
    ELSE IF username = env.username /\ password = env.password
    THEN [status |-> 200, grants |-> TRUE]
    ELSE [status |-> 401, grants |-> FALSE]

\* The if/else-if chain of the sync handler over the (possibly unwrapped) object
SyncExtractMeetings(actualData) ==
    IF IsArray(actualData) THEN Extracted(actualData.v, Obj(<<>>), Str(""))
    ELSE IF HasArray(actualData, "meetings")
    THEN Extracted(Prop(actualData, "meetings").v,
                   OrElse(Prop(actualData, "statistics"), Obj(<<>>)), Str(""))
    ELSE IF HasArray(actualData, "data")
    THEN Extracted(Prop(actualData, "data").v, Obj(<<>>), Str(""))
    ELSE IF HasArray(actualData, "items")
    THEN Extracted(Prop(actualData, "items").v, Obj(<<>>), Str(""))
    ELSE IF HasArray(actualData, "response")
    THEN Extracted(Prop(actualData, "response").v, Obj(<<>>), Str(""))
    ELSE IF HasArray(actualData, "result")
    THEN Extracted(Prop(actualData, "result").v, Obj(<<>>), Str(""))
    ELSE IF Truthy(Prop(actualData, "success")) /\ Truthy(Prop(actualData, "meetings"))
    THEN Extracted(<<>>, Obj(<<>>), Str(""))
    ELSE IF Truthy(Prop(actualData, "requestId")) \/ Truthy(Prop(actualData, "id"))
    THEN Extracted(<<actualData>>, Obj(<<>>), Str(""))
    ELSE AutoDetect(actualData)

\* The block of the sync handler that fills meetings and statistics
SyncNormalize(responseData) ==
    IF ~Truthy(responseData) THEN Extracted(<<>>, Obj(<<>>), Str(""))
    ELSE IF IsArray(responseData) THEN Extracted(responseData.v, Obj(<<>>), Str(""))
    ELSE IF TypeofObject(responseData)
    THEN SyncExtractMeetings(DescendJson(responseData))
    ELSE Extracted(<<>>, Obj(<<>>), Str(""))

\* A response that carries a status only
StatusOnly(status) ==
    [status |-> status, success |-> status = 200, meetings |-> <<>>,
     statistics |-> Undef]

\* The response the handler of POST /api/admin/sync-n8n sends, and the
\* number of GETs it issues to ADMIN_MEETINGS_WEBHOOK
SyncN8nResponse(configured, reply) ==
    IF ~configured THEN [response |-> StatusOnly(400), gets |-> 0]
    ELSE LET n == SyncNormalize(reply.data) IN
         IF ~reply.ok \/ n.threw THEN [response |-> StatusOnly(500), gets |-> 1]
         ELSE [response |-> [status |-> 200, success |-> TRUE,
                             meetings |-> n.meetings, statistics |-> n.statistics],
               gets |-> 1]

(***************************************************************************)
(* POST /api/meeting/request.                                              *)
(***************************************************************************)
requiredFields ==
    <<"userName", "userEmail", "userPhone", "meetingPurpose", "preferredDate",
      "preferredTime", "meetingType">>

\* requiredFields.filter(field => !req.body[field])
MissingField(body, field) == body[field] = ""
missingFields(body) == SelectSeq(requiredFields, LAMBDA field : MissingField(body, field))

\* The handler: the status it answers with and the number of POSTs it sends
\* to MEETING_REQUEST_WEBHOOK; upstream is how that POST ends ("ok",
\* "refused" for ECONNREFUSED, "failed" for any other error)
MeetingRequest(configured, body, upstream) ==
    IF Len(missingFields(body)) > 0 THEN [status |-> 400, posts |-> 0]
    ELSE IF ~configured THEN [status |-> 500, posts |-> 0]
    ELSE IF upstream = "refused" THEN [status |-> 503, posts |-> 1]
    ELSE IF upstream = "failed" THEN [status |-> 500, posts |-> 1]
    ELSE [status |-> 200, posts |-> 1]

(***************************************************************************)
(* Bounds of the payload domain.                                           *)
(***************************************************************************)
MaxArrLen == 2
MaxProps == 2

\* Meeting records and other array elements the upstream may send
recA == Obj(<<KV("requestId", Str("r1")), KV("userName", Str("ann"))>>)
recB == Obj(<<KV("meetingPurpose", Str("demo")), KV("status", Str("approved"))>>)
recBlankId == Obj(<<KV("requestId", Str("")), KV("note", Str("n"))>>)
Records == {recA, recB}
Items == Records \cup {recBlankId, Null, Str("s")}

SeqsUpTo(S, n) == UNION {[1..m -> S] : m \in 0..n}
NoRepeat(s) == \A i, j \in 1..Len(s) : i # j => s[i] # s[j]

\* Bare arrays: every sequence of items up to MaxArrLen
BareArrays == {Arr(s) : s \in SeqsUpTo(Items, MaxArrLen)}
\* Arrays of records held by a property
RecordArrays == {Arr(s) : s \in {q \in SeqsUpTo(Records, MaxArrLen) : NoRepeat(q)}}
\* Non-empty arrays whose first element is no meeting
JunkArrays == {Arr(<<Null>>), Arr(<<Str("s")>>), Arr(<<recBlankId, recA>>)}
Scalars == {Null, Str(""), Str("x"), Num(0), Num(5)}

KnownKeys == {"meetings", "data", "items", "response", "result"}
OtherKeys == {"customData", "extra"}
statsObj == Obj(<<KV("totalCount", Num(5))>>)

\* A record as a sheet with snake_case columns yields it, alone and beside a
\* record with canonical keys
recSnake ==
    Obj(<<KV("request_id", Str("r7")), KV("user_name", Str("bob")),
          KV("meeting_purpose", Str("demo"))>>)

AliasPayloads ==
    {Arr(<<recSnake>>),
     Obj(<<KV("meetings", Arr(<<recA, recSnake>>))>>),
     Obj(<<KV("json", Obj(<<KV("data", Arr(<<recSnake>>))>>))>>)}

FlatPairs ==
    {KV(k, a) : k \in KnownKeys, a \in RecordArrays \cup {Str("x")}}
    \cup {KV(k, a) : k \in OtherKeys, a \in RecordArrays \cup JunkArrays \cup {Str("x")}}
    \cup {KV("message", Str("Workflow was started")), KV("message", Str("ok")),
          KV("requestId", Str("r9")), KV("requestId", Str("")),
          KV("id", Num(7)), KV("id", Num(0)), KV("statistics", statsObj)}

DistinctKeys(ps) == \A i, j \in 1..Len(ps) : i # j => ps[i].k # ps[j].k

\* Objects without a json property, of at most n properties
FlatObjects(n) == {Obj(ps) : ps \in {q \in SeqsUpTo(FlatPairs, n) : DistinctKeys(q)}}

\* What a json property may hold, by the number of properties it uses
JsonInner(i) ==
    IF i = 0 THEN Scalars \cup RecordArrays \cup {Obj(<<>>)}
    ELSE {o \in FlatObjects(i) : Len(o.v) = i}

\* Objects with a json property (first in property order) and siblings;
\* the json property counts as one of the at most MaxProps properties
JsonObjects ==
    UNION {{Obj(<<KV("json", inner)>> \o sibs.v) :
                inner \in JsonInner(i), sibs \in FlatObjects(MaxProps - 1 - i)} :
           i \in 0..(MaxProps - 1)}

\* json inside json
DoubleJson ==
    {Obj(<<KV("json", Obj(<<KV("json", x)>>))>>) :
        x \in RecordArrays \cup FlatObjects(MaxProps - 1)}

(***************************************************************************)
(* Bounds and contents of the sheets.                                      *)
(***************************************************************************)
MaxRows == 2

\* Header rows: the documented columns, no Status column, camelCase names,
\* spellings outside the switch, a repeated User_Name column, no headers
HeaderRows ==
    { <<"Request_ID", "User_Name", "User_Email", "Meeting_Purpose", "Status">>,
      <<"Request_ID", "User_Name", "User_Email", "Meeting_Purpose">>,
      <<"requestId", "userName", "userEmail", "meetingPurpose", "status">>,
      <<"request_id", "User_Name", "User_Email", "Meeting_Purpose", "STATUS">>,
      <<"Request_ID", "User_Name", "User_Email", "Meeting_Purpose", "User_Name">>,
      <<>> }

\* Name, email and purpose cells: all present, or one of them blank
PersonCells ==
    { <<"Ann", "ann@x.com", "Demo">>, <<"", "ann@x.com", "Demo">>,
      <<" Ann ", " ", "Demo">>, <<"Ann", "ann@x.com", "">> }

\* Data rows: id, name, email, purpose and a fifth cell: complete rows under
\* every id and status, rows with a blank name, email or purpose, a short row
\* and a blank row
DataRows ==
    { <<id, "Ann", "ann@x.com", "Demo", fifth>> :
        id \in {"", "R1", "sheet_2"}, fifth \in {"", "Approved", "Cancelled"} }
    \cup { <<"R1">> \o person \o <<"Approved">> : person \in PersonCells }
    \cup { <<>>, <<"R1", "Ann", "ann@x.com", "Demo">> }

\* The lines of a CSV export: quoted cells, blank lines
CsvLines ==
    { <<"R1", "\"Ann\"", "ann@x.com", "Demo", "Approved">>,
      <<"", " Ann ", "ann@x.com", "Demo", "">>,
      <<"R1", "\"\"", "ann@x.com", "Demo", "">>,
      <<"", "", "", "", "">>, <<"">>, <<" ">> }

CsvHeader == <<"Request_ID", "User_Name", "User_Email", "Meeting_Purpose", "Status">>

ApiReply(rows) == [ok |-> TRUE, kind |-> "api", rows |-> rows]
CsvReply(lines) == [ok |-> TRUE, kind |-> "csv", rows |-> lines]
SheetFailed == [ok |-> FALSE, kind |-> "api", rows |-> <<>>]

(***************************************************************************)
(* Bounds and contents of the action requests.                             *)
(***************************************************************************)
MaxNow == 3

\* Form and request bodies
ActionBodies ==
    [requestId : {"", "R1"},
     action : {"", "approve", "reject", "reschedule", "delete"},
     adminNotes : {""},
     newDate : {"", "2026-01-01", "2026-01-02"},
     newTime : {"", "10:00"}]

\* What the dashboard's form can hold: showActionModal fills requestId and
\* action, the admin types the rest
ActionForms == {b \in ActionBodies : b.requestId = "R1" /\ b.action \in validActions}

(***************************************************************************)
(* Credentials and login attempts.                                        *)
(***************************************************************************)
\* ADMIN_USERNAME and ADMIN_PASSWORD: set, or not set
AdminEnvs ==
    { [username |-> "admin", password |-> "secret"],
      [username |-> "", password |-> ""] }

\* What a login request can carry as username or password
LoginStrings == {"", "admin", "secret"}

(***************************************************************************)
(* Bounds and contents of the lists handed to generateStatistics.          *)
(***************************************************************************)
MaxStatLen == 3

\* The status of a record: missing, an enum name in some case, other text
StatStatuses ==
    {Undef, Str("pending"), Str("PENDING"), Str("Approved"), Str("rejected"),
     Str("Rescheduled"), Str("Cancelled"), Str("Total")}

\* A record with that status (no status property when it is missing)
StatRecord(status) ==
    IF status = Undef THEN Obj(<<KV("requestId", Str("R1")), KV("urgency", Str("High"))>>)
    ELSE Obj(<<KV("requestId", Str("R1")), KV("status", status),
               KV("meetingType", Str("Hybrid"))>>)

StatLists == SeqsUpTo({StatRecord(st) : st \in StatStatuses}, MaxStatLen)

(***************************************************************************)
(* Meeting requests submitted by users.                                    *)
(***************************************************************************)
CompleteRequest ==
    [userName |-> "Ann", userEmail |-> "ann@x.com", userPhone |-> "555",
     meetingPurpose |-> "Demo", preferredDate |-> "2026-01-02",
     preferredTime |-> "10:00", meetingType |-> "online"]

\* The complete request, and the requests with one required field missing
SubmitBodies ==
    {CompleteRequest}
        \cup {[CompleteRequest EXCEPT ![requiredFields[i]] = ""] :
                 i \in 1..Len(requiredFields)}

(***************************************************************************)
(* The admin dashboard (public/js/admin-dashboard.js): what the page reads *)
(* from the bodies the server sends.                                       *)
(***************************************************************************)

\* true and false of a parsed body
Bool(b) == [t |-> "bool", v |-> b]

\* JSON.stringify leaves out the properties whose value is undefined
Defined(pairs) == SelectSeq(pairs, LAMBDA p : p.v.t # "undef")

\* The body res.json() sends for a response of the list endpoint: the 200
\* responses carry success, meetings, statistics and message or error, the
\* others error and message only
BodyOf(r) ==
    IF r.status = 200
    THEN Obj(Defined(<<KV("success", Bool(r.success)), KV("meetings", Arr(r.meetings)),
                       KV("statistics", r.statistics), KV("message", r.message),
                       KV("error", r.error)>>))
    ELSE Obj(Defined(<<KV("error", r.error), KV("message", r.message)>>))

\* The body of a response of POST /api/admin/sync-n8n
SyncBodyOf(r) ==
    IF r.status = 200
    THEN Obj(<<KV("success", Bool(TRUE)), KV("meetings", Arr(r.meetings)),
               KV("statistics", OrElse(r.statistics, Null))>>)
    ELSE IF r.status = 400
    THEN Obj(<<KV("error", Str("No n8n webhook configured for sync operation"))>>)
    ELSE Obj(<<KV("error", Str("Failed to sync with n8n"))>>)

\* What await fetch(...) yields: a rejection, or a response whose body
\* parses as JSON or does not
NoAnswer == [failed |-> FALSE, status |-> 0, json |-> FALSE, body |-> Undef]
NetworkFailure == [failed |-> TRUE, status |-> 0, json |-> FALSE, body |-> Undef]
Answer(status, body) == [failed |-> FALSE, status |-> status, json |-> TRUE, body |-> body]
PlainText(status) == [failed |-> FALSE, status |-> status, json |-> FALSE, body |-> Undef]

\* response.ok
ResponseOk(a) == ~a.failed /\ a.status >= 200 /\ a.status <= 299

\* !result?.meetings || result.meetings.length === 0
NeedsTestData(result) ==
    LET m == Prop(result, "meetings") IN
    ~Truthy(m) \/ (IsArray(m) /\ Len(m.v) = 0)

\* Array.isArray(testResult?.meetings) && testResult.meetings.length > 0
UsableTestData(t) ==
    /\ ResponseOk(t) /\ t.json
    /\ IsArray(Prop(t.body, "meetings")) /\ Len(Prop(t.body, "meetings").v) > 0

\* The meetings loadMeetings takes from the parsed body
ClientMeetings(result) ==
    LET nested == OrElse(Prop(result, "json"), Obj(<<>>)) IN
    IF IsArray(result) THEN result.v
    ELSE IF IsArray(Prop(result, "meetings")) THEN Prop(result, "meetings").v
    ELSE IF IsArray(Prop(result, "data")) THEN Prop(result, "data").v
    ELSE IF IsArray(Prop(nested, "meetings")) THEN Prop(nested, "meetings").v
    ELSE IF IsArray(Prop(nested, "data")) THEN Prop(nested, "data").v
    ELSE <<>>

\* result?.statistics || nested?.statistics || null
ClientStatistics(result) ==
    LET nested == OrElse(Prop(result, "json"), Obj(<<>>)) IN
    OrElse(OrElse(Prop(result, "statistics"), Prop(nested, "statistics")), Null)

\* The errors the catch block of loadMeetings sees
FetchRejected == [name |-> "TypeError", message |-> Str("Failed to fetch")]
JsonRejected == [name |-> "SyntaxError", message |-> Str("Unexpected token T in JSON")]
NoError == [name |-> "", message |-> Str("")]

\* new Error(result?.error || result?.message || 'Failed to load meetings')
LoadError(result) ==
    [name |-> "Error",
     message |-> OrElse(OrElse(Prop(result, "error"), Prop(result, "message")),
                        Str("Failed to load meetings"))]

\* message.includes('fetch'), of the messages that occur
IncludesFetch(message) ==
    message \in {Str("Failed to fetch"), Str("Failed to fetch meetings from n8n")}

\* error?.message?.includes('fetch') || error?.name === 'TypeError'
ShowsSample(error) == IncludesFetch(error.message) \/ error.name = "TypeError"

\* getSampleMeetings(): of each record the properties the counters read
getSampleMeetings ==
    <<Obj(<<KV("requestId", Str("req_001")), KV("status", Str("pending")),
            KV("timestamp", Str("2024-12-10T09:30:00Z"))>>),
      Obj(<<KV("requestId", Str("req_002")), KV("status", Str("approved")),
            KV("timestamp", Str("2024-12-09T14:15:00Z"))>>),
      Obj(<<KV("requestId", Str("req_003")), KV("status", Str("rescheduled")),
            KV("timestamp", Str("2024-12-08T11:20:00Z"))>>)>>

\* oneWeekAgo.setDate(oneWeekAgo.getDate() - 7)
TrailingDays == 7

\* The whole days between new Date(timestamp) and the page's clock, which
\* reads 2026-01-08T12:00:00Z; -1 for an Invalid Date
DaysAgo(timestamp) ==
    CASE timestamp = Str("2026-01-07T10:00:00Z") -> 1
      [] timestamp = Str("2025-11-01T09:00:00Z") -> 68
      [] timestamp = Str("2024-12-10T09:30:00Z") -> 394
      [] timestamp = Str("2024-12-09T14:15:00Z") -> 394
      [] timestamp = Str("2024-12-08T11:20:00Z") -> 396
      [] OTHER -> -1

\* m => { if (!m || !m.timestamp) return false; return new Date(m.timestamp) >= oneWeekAgo }
WithinWeek(m) ==
    /\ Truthy(m) /\ Truthy(Prop(m, "timestamp"))
    /\ DaysAgo(Prop(m, "timestamp")) >= 0
    /\ DaysAgo(Prop(m, "timestamp")) <= TrailingDays

\* m => m && m.status === s
HasStatus(m, s) == Truthy(m) /\ IsStr(Prop(m, "status"), s)

\* What renderMeetingsTable reads from a record for its status badge and the
\* onclick attributes of its buttons
RowStatus(meeting) == OrElse(Prop(meeting, "status"), Str("pending"))
RowRequestId(meeting) ==
    OrElse(OrElse(OrElse(Prop(meeting, "requestId"), Prop(meeting, "request_id")),
                  Prop(meeting, "id")), Str(""))

\* status === 'pending' ? ... : '' of a row that is drawn
OffersControls(meeting) == Truthy(meeting) /\ RowStatus(meeting) = Str("pending")

\* The index of the record currentMeetings.find(m => m.requestId === requestId)
\* returns, 0 when it returns undefined
FindMeeting(meetings, requestId) ==
    LET hits == {i \in 1..Len(meetings) : Prop(meetings[i], "requestId") = requestId} IN
    IF hits = {} THEN 0 ELSE CHOOSE i \in hits : \A j \in hits : i <= j

\* The action dialog not shown
ModalClosed == [open |-> FALSE, requestId |-> Undef, action |-> ""]

\* The values of the action argument in the onclick attributes
ModalActions == {"approve", "reject", "reschedule"}

\* The callback of currentMeetings.filter in applyFilters; an empty select
\* value filters nothing
PassesFilters(meeting, filters) ==
    /\ Truthy(meeting)
    /\ filters.status = "" \/ OrElse(Prop(meeting, "status"), Str("pending")) = Str(filters.status)
    /\ filters.priority = ""
         \/ OrElse(OrElse(Prop(meeting, "priority"), Prop(meeting, "urgency")), Str("normal"))
                = Str(filters.priority)
    /\ filters.type = ""
         \/ OrElse(OrElse(Prop(meeting, "meetingType"), Prop(meeting, "meeting_type")), Str("online"))
                = Str(filters.type)

\* The three selects as clearFilters leaves them
NoFilters == [status |-> "", priority |-> "", type |-> ""]

\* The values the three selects are set to
FilterChoices ==
    [status : {"", "pending", "approved"}, priority : {"", "high"}, type : {"", "online"}]

\* The statistics object never looked at
UseStatisticsNever(stats) == FALSE

\* dashboardStatistics && typeof dashboardStatistics === 'object'
UseStatistics(stats) == Truthy(stats) /\ TypeofObject(stats)

\* The four counters updateDashboardStats() writes into the page
updateDashboardStats(meetings, stats) ==
    LET thisWeek == Cardinality({i \in 1..Len(meetings) : WithinWeek(meetings[i])}) IN
    IF UseStatistics(stats)
    THEN [total |-> OrElse(Prop(stats, "totalCount"), Num(0)),
          pending |-> OrElse(Prop(stats, "pendingCount"), Num(0)),
          approved |-> OrElse(Prop(stats, "approvedCount"), Num(0)),
          thisWeek |-> Num(thisWeek)]
    ELSE [total |-> Num(Len(meetings)),
          pending |-> Num(Cardinality({i \in 1..Len(meetings) :
                                          HasStatus(meetings[i], "pending")})),
          approved |-> Num(Cardinality({i \in 1..Len(meetings) :
                                           HasStatus(meetings[i], "approved")})),
          thisWeek |-> Num(thisWeek)]

(***************************************************************************)
(* The answers the dashboard's requests get.                               *)
(***************************************************************************)
\* The fields every meeting of the store carries
Person ==
    <<KV("userName", Str("Ann")), KV("userEmail", Str("ann@x.com")),
      KV("meetingPurpose", Str("Demo"))>>

mtgP == Obj(<<KV("requestId", Str("r1")), KV("status", Str("pending")),
              KV("timestamp", Str("2026-01-07T10:00:00Z"))>> \o Person)
mtgQ == Obj(<<KV("requestId", Str("r2")), KV("status", Str("approved")),
              KV("timestamp", Str("2025-11-01T09:00:00Z"))>> \o Person)
mtgR == Obj(<<KV("requestId", Str("r3")), KV("status", Str("Pending"))>> \o Person)

countsObj ==
    Obj(<<KV("totalCount", Num(5)), KV("pendingCount", Num(4))>>)

\* GET /api/admin/meetings: no connection, an expired session, two lists of
\* the webhook (without and with statistics), the unconfigured webhook, the
\* unconfigured spreadsheet and the rate limiter's text
ListAnswers ==
    {NetworkFailure,
     Answer(401, BodyOf(Unauthorized)),
     Answer(200, BodyOf(AdminMeetingsResponse(TRUE, ReplyOk(Arr(<<mtgP, mtgR>>))))),
     Answer(200, BodyOf(AdminMeetingsResponse(TRUE,
         ReplyOk(Obj(<<KV("meetings", Arr(<<mtgQ, mtgP>>)),
                       KV("statistics", countsObj)>>))))),
     Answer(200, BodyOf(AdminMeetingsResponse(FALSE, ReplyFailed))),
     Answer(400, BodyOf(SheetsMeetingsResponse(FALSE, SheetFailed))),
     PlainText(429)}

\* GET /api/admin/meetings/test
TestBody ==
    Obj(<<KV("success", Bool(TRUE)), KV("meetings", Arr(<<Obj(<<>>)>>)),
          KV("count", Num(1)),
          KV("message", Str("Using test data - your actual n8n data structure"))>>)

TestAnswers == {NetworkFailure, Answer(401, BodyOf(Unauthorized)), Answer(200, TestBody)}

\* POST /api/admin/sync-n8n
SyncAnswers ==
    {NetworkFailure,
     Answer(401, BodyOf(Unauthorized)),
     Answer(400, SyncBodyOf(SyncN8nResponse(FALSE, ReplyFailed).response)),
     Answer(500, SyncBodyOf(SyncN8nResponse(TRUE, ReplyFailed).response)),
     Answer(200, SyncBodyOf(SyncN8nResponse(TRUE, ReplyOk(Arr(<<mtgQ>>))).response))}

\* The two invocations in flight together: the refresh or sync the admin
\* starts and the refresh of setInterval
Invocations == {"manual", "auto"}

(***************************************************************************)
(* The endpoints of server.js that answer without a login.                 *)
(***************************************************************************)
\* app.get('/api/health'), without its timestamp
HealthResponse(configured, reply) ==
    [status |-> 200,
     body |-> Obj(<<KV("status", Str("healthy")), KV("version", Str("1.0.0")),
                    KV("sheetId", Str(IF configured THEN "configured" ELSE "missing")),
                    KV("apiKey", Str(IF reply.kind = "api" THEN "configured"
                                     ELSE "missing"))>>)]

\* firstMeeting of the test result: three fields of meetings[0], null for
\* an empty list
FirstMeeting(meetings) ==
    IF Len(meetings) > 0
    THEN Obj(Defined(<<KV("requestId", Prop(meetings[1], "requestId")),
                       KV("userName", Prop(meetings[1], "userName")),
                       KV("status", Prop(meetings[1], "status"))>>))
    ELSE Null

\* app.get('/api/test-sheets-connection'), without its timestamp
TestSheetsConnection(configured, reply) ==
    IF ~configured
    THEN [status |-> 400,
          body |-> Obj(<<KV("success", Bool(FALSE)),
                         KV("error", Str("Google Sheets ID not configured"))>>)]
    ELSE LET meetings == fetchMeetingRequests(configured, reply) IN
         [status |-> 200,
          body |-> Obj(<<KV("success", Bool(TRUE)),
                         KV("meetingsFound", Num(Len(meetings))),
                         KV("sheetsConfigured", Bool(configured)),
                         KV("apiKeyConfigured", Bool(reply.kind = "api")),
                         KV("firstMeeting", FirstMeeting(meetings))>>)]

\* The endpoints behind authenticateAdmin
GatedEndpoints == {"meetings", "test-sheets", "sync-n8n"}

\* What a gated endpoint of server.js answers: 401 from the middleware, else
\* the list the spreadsheet yields
GatedResponse(passed, configured, reply) ==
    IF ~passed THEN [status |-> 401, body |-> BodyOf(Unauthorized)]
    ELSE LET r == SheetsMeetingsResponse(configured, reply) IN
         [status |-> r.status, body |-> BodyOf(r)]

\* app.post('/api/admin/sync-n8n') of server.js behind authenticateAdmin
\* (fetchMeetingRequests catches every error itself, so the handler's own
\* catch block is not entered)
SheetsSyncResponse(passed, configured, reply) ==
    IF ~passed THEN [status |-> 401, body |-> BodyOf(Unauthorized)]
    ELSE IF ~configured
    THEN [status |-> 400,
          body |-> Obj(<<KV("error", Str("Google Sheets not configured")),
                         KV("message", Str("Please configure GOOGLE_SHEETS_ID in your environment variables"))>>)]
    ELSE LET meetings == fetchMeetingRequests(configured, reply) IN
         [status |-> 200,
          body |-> Obj(<<KV("success", Bool(TRUE)),
                         KV("meetings", Arr(meetings)),
                         KV("statistics", StatsJson(generateStatistics(meetings))),
                         KV("syncTriggered", Bool(TRUE))>>)]

NoPublicResponse == [status |-> 0, body |-> Undef]

(***************************************************************************)
(* State.                                                                  *)
(***************************************************************************)
VARIABLES
    sessionIsAdmin,     \* req.session.isAdmin of the calling session
    meetingsWebhook,    \* whether ADMIN_MEETINGS_WEBHOOK is configured
    n8nReply,           \* what axios.get on the meetings webhook yields
    listResponse,       \* the HTTP response of GET /api/admin/meetings
    webhookGets,        \* the GETs the last list or sync request sent to the webhook
    sheetsId,           \* whether GOOGLE_SHEETS_ID (this.spreadsheetId) is set
    sheetReply,         \* what the spreadsheet answers: API values or CSV lines
    fetchResult,        \* what fetchMeetingRequests returned
    now,                \* the clock (new Date())
    actionWebhook,      \* whether ADMIN_ACTION_WEBHOOK is configured
    actionRequest,      \* the POST /api/admin/meeting/action request under way
    actionPosts,        \* the POSTs issued to the action webhook for it
    actionResponse,     \* the HTTP status it was answered with
    clientAlert,        \* the last alert confirmAction showed
    adminEnv,           \* ADMIN_USERNAME and ADMIN_PASSWORD
    gateRequest,        \* the last login, logout, session, dashboard or sync request
    gateResponse,       \* the response it got
    statInput,          \* the meetings handed to generateStatistics
    statResult,         \* what generateStatistics returned for them
    requestWebhook,     \* whether MEETING_REQUEST_WEBHOOK is configured
    submitRequest,      \* the body of the last POST /api/meeting/request
    submitResponse,     \* the status it was answered with, the POSTs it caused
    currentMeetings,    \* the dashboard's currentMeetings
    filteredMeetings,   \* the dashboard's filteredMeetings
    dashboardStatistics, \* the dashboard's dashboardStatistics
    tableRows,          \* the rows renderMeetingsTable drew last
    displayedStats,     \* the four counters updateDashboardStats wrote last
    dashAlert,          \* the message of the last showAlert
    redirected,         \* whether window.location.href was set to /admin
    loads,              \* of each invocation: where it stands and what it got
    processed,          \* the invocations in the order their lists were taken
    otherSheetReply,    \* what the spreadsheet answers in a second run of the server
    publicRequest,      \* the endpoint the last request without a login asked for
    publicResponse,     \* the response it got
    otherPublicResponse, \* the response the same request got in the second run
    selectedFilters,    \* the values of the statusFilter, priorityFilter, typeFilter selects
    actionModal         \* the action dialog: whether it is open, and its hidden fields

normVars == <<meetingsWebhook, n8nReply, listResponse, webhookGets>>
sheetVars == <<sheetsId, sheetReply, fetchResult>>
actVars == <<now, actionWebhook, actionRequest, actionPosts, actionResponse, clientAlert>>
gateVars == <<adminEnv, gateRequest, gateResponse>>
statVars == <<statInput, statResult>>
submitVars == <<requestWebhook, submitRequest, submitResponse>>
dashVars ==
    <<currentMeetings, filteredMeetings, dashboardStatistics, tableRows, displayedStats,
      dashAlert, redirected, loads, processed>>
pubVars == <<otherSheetReply, publicRequest, publicResponse, otherPublicResponse>>
controlVars == <<selectedFilters, actionModal>>
vars ==
    <<sessionIsAdmin, normVars, sheetVars, actVars, gateVars, statVars, submitVars, dashVars,
      pubVars, controlVars>>

(***************************************************************************)
(* Operations.                                                             *)
(***************************************************************************)
\* authenticateAdmin letting every session through
authenticateAdminOpen == TRUE

\* authenticateAdmin: next() for an admin session, 401 otherwise
authenticateAdmin == sessionIsAdmin

\* GET /api/admin/meetings answered
GetAdminMeetings ==
    /\ authenticateAdmin
    /\ listResponse' = AdminMeetingsResponse(meetingsWebhook, n8nReply)
    /\ webhookGets' = IF meetingsWebhook THEN 1 ELSE 0
    /\ UNCHANGED <<sessionIsAdmin, meetingsWebhook, n8nReply>>
    /\ UNCHANGED <<sheetVars, actVars, gateVars, statVars, submitVars, dashVars, pubVars, controlVars>>

\* GET /api/admin/meetings stopped by authenticateAdmin
GetAdminMeetingsDenied ==
    /\ ~authenticateAdmin
    /\ listResponse' = Unauthorized
    /\ webhookGets' = 0
    /\ UNCHANGED <<sessionIsAdmin, meetingsWebhook, n8nReply>>
    /\ UNCHANGED <<sheetVars, actVars, gateVars, statVars, submitVars, dashVars, pubVars, controlVars>>

NotFetched == [done |-> FALSE, meetings |-> <<>>]

\* GoogleSheetsService.fetchMeetingRequests() called and returned
FetchMeetingRequests ==
    /\ ~fetchResult.done
    /\ fetchResult' = [done |-> TRUE,
                       meetings |-> fetchMeetingRequests(sheetsId, sheetReply)]
    /\ UNCHANGED <<sheetsId, sheetReply>>
    /\ UNCHANGED <<sessionIsAdmin, normVars, actVars, gateVars, statVars, submitVars, dashVars, pubVars, controlVars>>

\* GET /api/admin/meetings of the spreadsheet variant, with the call of
\* fetchMeetingRequests it makes when GOOGLE_SHEETS_ID is set
GetAdminMeetingsSheets ==
    /\ authenticateAdmin
    /\ listResponse = NoResponse
    /\ listResponse' = SheetsMeetingsResponse(sheetsId, sheetReply)
    /\ fetchResult' = IF sheetsId
                      THEN [done |-> TRUE,
                            meetings |-> fetchMeetingRequests(sheetsId, sheetReply)]
                      ELSE fetchResult
    /\ UNCHANGED <<sheetsId, sheetReply>>
    /\ UNCHANGED <<sessionIsAdmin, meetingsWebhook, n8nReply, webhookGets>>
    /\ UNCHANGED <<actVars, gateVars, statVars, submitVars, dashVars, pubVars, controlVars>>

\* generateStatistics not yet called
NoStatistics == [done |-> FALSE, stats |-> NewStats(<<>>)]

\* generateStatistics(meetings) called and returned
GenerateStatistics ==
    /\ ~statResult.done
    /\ statResult' = [done |-> TRUE, stats |-> generateStatistics(statInput)]
    /\ UNCHANGED <<statInput, sessionIsAdmin, normVars, sheetVars, actVars, gateVars, submitVars, dashVars, pubVars, controlVars>>

\* No request under way
NoRequest ==
    [stage |-> "idle", via |-> "none", sentAt |-> 0,
     body |-> [requestId |-> "", action |-> "", adminNotes |-> "",
               newDate |-> "", newTime |-> ""]]

\* Time passes
Tick ==
    /\ now < MaxNow
    /\ now' = now + 1
    /\ UNCHANGED <<actionWebhook, actionRequest, actionPosts, actionResponse, clientAlert>>
    /\ UNCHANGED <<sessionIsAdmin, normVars, sheetVars, gateVars, statVars, submitVars, dashVars, pubVars, controlVars>>

\* confirmAction() up to its fetch: validate the form, then send the request
\* (or fail on the network)
ConfirmAction ==
    /\ actionRequest.stage = "idle"
    /\ \E form \in ActionForms, sent \in BOOLEAN :
          LET actionData == TrimForm(form)
              alert == RescheduleAlert(actionData, now)
          IN IF alert # ""
             THEN /\ clientAlert' = alert
                  /\ UNCHANGED <<actionRequest, actionPosts, actionResponse>>
             ELSE IF ~sent
             THEN /\ clientAlert' = "Failed to fetch"
                  /\ UNCHANGED <<actionRequest, actionPosts, actionResponse>>
             ELSE /\ actionRequest' = [stage |-> "sent", via |-> "dashboard",
                                       sentAt |-> now, body |-> actionData]
                  /\ actionPosts' = <<>>
                  /\ actionResponse' = 0
                  /\ clientAlert' = ""
    /\ UNCHANGED <<now, actionWebhook>>
    /\ UNCHANGED <<sessionIsAdmin, normVars, sheetVars, gateVars, statVars, submitVars, dashVars, pubVars, controlVars>>

\* POST /api/admin/meeting/action sent by another HTTP client
DirectPost ==
    /\ actionRequest.stage = "idle"
    /\ \E body \in ActionBodies :
          actionRequest' = [stage |-> "sent", via |-> "direct",
                            sentAt |-> now, body |-> body]
    /\ actionPosts' = <<>>
    /\ actionResponse' = 0
    /\ UNCHANGED <<now, actionWebhook, clientAlert>>
    /\ UNCHANGED <<sessionIsAdmin, normVars, sheetVars, gateVars, statVars, submitVars, dashVars, pubVars, controlVars>>

\* The handler of POST /api/admin/meeting/action, authenticateAdmin included
PostAdminMeetingAction ==
    /\ actionRequest.stage = "sent"
    /\ \E webhookOk \in BOOLEAN :
          LET r == AdminMeetingAction(sessionIsAdmin, actionWebhook,
                                      actionRequest.body, webhookOk, now)
          IN /\ actionPosts' = r.posts
             /\ actionResponse' = r.status
    /\ actionRequest' = [actionRequest EXCEPT !.stage = "answered"]
    /\ UNCHANGED <<now, actionWebhook, clientAlert>>
    /\ UNCHANGED <<sessionIsAdmin, normVars, sheetVars, gateVars, statVars, submitVars, dashVars, pubVars, controlVars>>

\* An invocation of loadMeetings that was not started
IdleLoad ==
    [kind |-> "none", pc |-> "idle", requests |-> 0, first |-> NoAnswer,
     answer |-> NoAnswer, result |-> Undef, error |-> NoError]

\* A refresh after every answer
RefreshAfterAlways(status) == TRUE

\* response.ok && result.success
RefreshAfter(status) == status = 200

\* confirmAction() after its fetch: the success alert and refreshMeetings()
\* (whose loadMeetings fetches GET /api/admin/meetings), or the error alert
ConfirmActionDone ==
    /\ actionRequest.stage = "answered"
    /\ actionRequest.via = "dashboard"
    /\ clientAlert' = IF actionResponse = 200 THEN "success"
                      ELSE "Failed to process admin action. Please try again."
    /\ listResponse' = IF ~RefreshAfter(actionResponse) THEN listResponse
                       ELSE IF authenticateAdmin
                       THEN AdminMeetingsResponse(meetingsWebhook, n8nReply)
                       ELSE Unauthorized
    /\ webhookGets' = IF RefreshAfter(actionResponse) /\ authenticateAdmin /\ meetingsWebhook
                      THEN 1 ELSE 0
    /\ actionRequest' = [actionRequest EXCEPT !.stage = "idle"]
    /\ IF RefreshAfter(actionResponse) /\ loads["manual"].pc \in {"idle", "done"}
       THEN /\ loads' = [loads EXCEPT !["manual"] =
                            [IdleLoad EXCEPT !.kind = "refresh", !.pc = "list",
                                             !.requests = 1]]
            /\ processed' = SelectSeq(processed, LAMBDA i : i # "manual")
       ELSE UNCHANGED <<loads, processed>>
    /\ UNCHANGED <<currentMeetings, filteredMeetings, dashboardStatistics, tableRows,
                   displayedStats, dashAlert, redirected>>
    /\ UNCHANGED <<now, actionWebhook, actionPosts, actionResponse>>
    /\ UNCHANGED <<sessionIsAdmin, meetingsWebhook, n8nReply, sheetVars, gateVars, statVars, submitVars, pubVars, controlVars>>

\* The other HTTP client got its answer
DirectPostDone ==
    /\ actionRequest.stage = "answered"
    /\ actionRequest.via = "direct"
    /\ actionRequest' = [actionRequest EXCEPT !.stage = "idle"]
    /\ UNCHANGED <<now, actionWebhook, actionPosts, actionResponse, clientAlert>>
    /\ UNCHANGED <<sessionIsAdmin, normVars, sheetVars, gateVars, statVars, submitVars, dashVars, pubVars, controlVars>>

\* No login, logout, session, dashboard or sync request made yet
NoGateRequest ==
    [endpoint |-> "none", wasAdmin |-> FALSE, username |-> "", password |-> ""]

\* A request without credentials in its body
GateRequest(endpoint) ==
    [endpoint |-> endpoint, wasAdmin |-> sessionIsAdmin,
     username |-> "", password |-> ""]

\* POST /api/admin/login
PostAdminLogin ==
    /\ \E username \in LoginStrings, password \in LoginStrings :
          LET r == AdminLogin(adminEnv, username, password) IN
          /\ sessionIsAdmin' = IF r.grants THEN TRUE ELSE sessionIsAdmin
          /\ gateRequest' = [endpoint |-> "login", wasAdmin |-> sessionIsAdmin,
                             username |-> username, password |-> password]
          /\ gateResponse' = StatusOnly(r.status)
    /\ UNCHANGED <<adminEnv, normVars, sheetVars, actVars, statVars, submitVars, dashVars, pubVars, controlVars>>

\* POST /api/admin/logout: req.session.destroy, which the store may fail
PostAdminLogout ==
    /\ \E destroyed \in BOOLEAN :
          /\ sessionIsAdmin' = IF destroyed THEN FALSE ELSE sessionIsAdmin
          /\ gateResponse' = StatusOnly(IF destroyed THEN 200 ELSE 500)
    /\ gateRequest' = GateRequest("logout")
    /\ UNCHANGED <<adminEnv, normVars, sheetVars, actVars, statVars, submitVars, dashVars, pubVars, controlVars>>

\* GET /api/admin/session
GetAdminSession ==
    /\ gateRequest' = GateRequest("session")
    /\ gateResponse' = StatusOnly(IF authenticateAdmin THEN 200 ELSE 401)
    /\ UNCHANGED <<sessionIsAdmin, adminEnv, normVars, sheetVars, actVars, statVars, submitVars, dashVars, pubVars, controlVars>>

\* GET /admin/dashboard
GetAdminDashboard ==
    /\ gateRequest' = GateRequest("dashboard")
    /\ gateResponse' = StatusOnly(IF authenticateAdmin THEN 200 ELSE 401)
    /\ UNCHANGED <<sessionIsAdmin, adminEnv, normVars, sheetVars, actVars, statVars, submitVars, dashVars, pubVars, controlVars>>

\* POST /api/admin/sync-n8n
PostAdminSyncN8n ==
    /\ gateRequest' = GateRequest("sync-n8n")
    /\ LET r == SyncN8nResponse(meetingsWebhook, n8nReply) IN
       IF authenticateAdmin
       THEN gateResponse' = r.response /\ webhookGets' = r.gets
       ELSE gateResponse' = StatusOnly(401) /\ webhookGets' = 0
    /\ UNCHANGED <<sessionIsAdmin, adminEnv, meetingsWebhook, n8nReply, listResponse>>
    /\ UNCHANGED <<sheetVars, actVars, statVars, submitVars, dashVars, pubVars, controlVars>>

\* No meeting request submitted yet
NoSubmission == [status |-> 0, posts |-> 0]

\* POST /api/meeting/request
PostMeetingRequest ==
    /\ \E body \in SubmitBodies, upstream \in {"ok", "refused", "failed"} :
          /\ submitRequest' = body
          /\ submitResponse' = MeetingRequest(requestWebhook, body, upstream)
    /\ UNCHANGED <<requestWebhook, sessionIsAdmin, normVars, sheetVars, actVars,
                   gateVars, statVars, dashVars, pubVars, controlVars>>

(***************************************************************************)
(* Specifications.                                                         *)
(***************************************************************************)
(***************************************************************************)
(* The admin dashboard: loadMeetings, refreshMeetings and syncWithN8n as   *)
(* the steps between their awaits.                                         *)
(***************************************************************************)
\* The alert that ends refreshMeetings and the successful syncWithN8n
CompletionAlert(kind) ==
    IF kind = "sync" THEN "n8n workflow sync completed successfully! Data updated."
    ELSE "Meetings refreshed successfully!"

\* A copy taken of the list shown before
SpreadStale(list) == filteredMeetings

\* [...currentMeetings]
Spread(list) == list

\* loadMeetings took the meetings of a response that is ok; the caller
\* updates the counters again and shows its alert
Loaded(i, l) ==
    /\ currentMeetings' = ClientMeetings(l.result)
    /\ filteredMeetings' = Spread(currentMeetings')
    /\ dashboardStatistics' = ClientStatistics(l.result)
    /\ tableRows' = filteredMeetings'
    /\ displayedStats' = updateDashboardStats(currentMeetings', dashboardStatistics')
    /\ dashAlert' = CompletionAlert(l.kind)
    /\ loads' = [loads EXCEPT ![i] = [l EXCEPT !.pc = "done"]]
    /\ processed' = Append(processed, i)
    /\ UNCHANGED redirected

\* The catch block of loadMeetings, then the caller's counters and alert
Caught(i, l, error) ==
    /\ currentMeetings' = IF ShowsSample(error) THEN getSampleMeetings ELSE <<>>
    /\ filteredMeetings' = IF ShowsSample(error) THEN Spread(currentMeetings') ELSE <<>>
    /\ tableRows' = filteredMeetings'
    /\ displayedStats' = updateDashboardStats(currentMeetings', dashboardStatistics)
    /\ dashAlert' = CompletionAlert(l.kind)
    /\ loads' = [loads EXCEPT ![i] = [l EXCEPT !.pc = "done", !.error = error]]
    /\ processed' = Append(processed, i)
    /\ UNCHANGED <<dashboardStatistics, redirected>>

\* if (response.ok) { ... } else { throw new Error(...) }
Finish(i, l) ==
    IF ResponseOk(l.answer) THEN Loaded(i, l) ELSE Caught(i, l, LoadError(l.result))

\* A step of a load that leaves the page as it is
Waiting(i, l) ==
    /\ loads' = [loads EXCEPT ![i] = l]
    /\ UNCHANGED <<currentMeetings, filteredMeetings, dashboardStatistics, tableRows,
                   displayedStats, dashAlert, redirected, processed>>

\* refreshMeetings() of the refresh button or of setInterval: loadMeetings
\* issues its request
StartRefresh(i) ==
    /\ ~redirected /\ loads[i].pc = "idle"
    /\ Waiting(i, [IdleLoad EXCEPT !.kind = "refresh", !.pc = "list", !.requests = 1])
    /\ UNCHANGED <<sessionIsAdmin, normVars, sheetVars, actVars, gateVars, statVars, submitVars,
                   pubVars, controlVars>>

\* A retry after every error status
IsAuthRaceAnyError(a) == ~a.failed /\ a.status >= 400

\* response.status === 401
IsAuthRace(a) == ~a.failed /\ a.status = 401

\* The first request of loadMeetings is answered
FirstAnswer(i, a) ==
    LET l == [loads[i] EXCEPT !.first = a, !.answer = a] IN
    IF a.failed THEN Caught(i, l, FetchRejected)
    ELSE IF IsAuthRace(a) THEN Waiting(i, [l EXCEPT !.pc = "delay"])
    ELSE Waiting(i, [l EXCEPT !.pc = "parse"])

\* The first request of loadMeetings is answered by some server
ListAnswered(i) ==
    /\ ~redirected /\ loads[i].pc = "list"
    /\ \E a \in ListAnswers : FirstAnswer(i, a)
    /\ UNCHANGED <<sessionIsAdmin, normVars, sheetVars, actVars, gateVars, statVars, submitVars,
                   pubVars, controlVars>>

\* The 500 ms are over: the retry is issued
RetryIssued(i) ==
    /\ ~redirected /\ loads[i].pc = "delay"
    /\ Waiting(i, [loads[i] EXCEPT !.pc = "retry", !.requests = @ + 1])
    /\ UNCHANGED <<sessionIsAdmin, normVars, sheetVars, actVars, gateVars, statVars, submitVars,
                   pubVars, controlVars>>

\* The retry is answered: a second 401 or a rejection sets
\* window.location.href and returns to the caller
RetryAnswered(i) ==
    /\ ~redirected /\ loads[i].pc = "retry"
    /\ \E a \in ListAnswers :
          LET l == [loads[i] EXCEPT !.answer = a] IN
          IF a.failed \/ a.status = 401
          THEN /\ redirected' = TRUE
               /\ loads' = [loads EXCEPT ![i] = [l EXCEPT !.pc = "done"]]
               /\ displayedStats' = updateDashboardStats(currentMeetings, dashboardStatistics)
               /\ dashAlert' = CompletionAlert(l.kind)
               /\ UNCHANGED <<currentMeetings, filteredMeetings, dashboardStatistics,
                              tableRows, processed>>
          ELSE Waiting(i, [l EXCEPT !.pc = "parse"])
    /\ UNCHANGED <<sessionIsAdmin, normVars, sheetVars, actVars, gateVars, statVars, submitVars,
                   pubVars, controlVars>>

\* await response.json(), then the request to the test endpoint or the rest
\* of loadMeetings
JsonParsed(i) ==
    /\ ~redirected /\ loads[i].pc = "parse"
    /\ LET a == loads[i].answer
           l == [loads[i] EXCEPT !.result = a.body] IN
       IF ~a.json THEN Caught(i, loads[i], JsonRejected)
       ELSE IF ResponseOk(a) /\ NeedsTestData(a.body)
       THEN Waiting(i, [l EXCEPT !.pc = "test"])
       ELSE Finish(i, l)
    /\ UNCHANGED <<sessionIsAdmin, normVars, sheetVars, actVars, gateVars, statVars, submitVars,
                   pubVars, controlVars>>

\* The test endpoint is answered
TestAnswered(i) ==
    /\ ~redirected /\ loads[i].pc = "test"
    /\ \E t \in TestAnswers :
          Finish(i, [loads[i] EXCEPT !.result = IF UsableTestData(t) THEN t.body ELSE @])
    /\ UNCHANGED <<sessionIsAdmin, normVars, sheetVars, actVars, gateVars, statVars, submitVars,
                   pubVars, controlVars>>

\* syncWithN8n() of the sync button issues its request
StartSync ==
    /\ ~redirected /\ loads["manual"].pc = "idle"
    /\ loads' = [loads EXCEPT !["manual"] = [IdleLoad EXCEPT !.kind = "sync", !.pc = "sync"]]
    /\ dashAlert' = "Triggering n8n workflow sync..."
    /\ UNCHANGED <<currentMeetings, filteredMeetings, dashboardStatistics, tableRows,
                   displayedStats, redirected, processed>>
    /\ UNCHANGED <<sessionIsAdmin, normVars, sheetVars, actVars, gateVars, statVars, submitVars,
                   pubVars, controlVars>>

\* The sync request is answered and its body parsed
SyncAnswer(a) ==
    LET l == [loads["manual"] EXCEPT !.answer = a, !.result = a.body]
        meetings == Prop(a.body, "meetings")
        statistics == Prop(a.body, "statistics") IN
    IF a.failed \/ ~a.json
    THEN /\ dashAlert' = "n8n sync error"
         /\ loads' = [loads EXCEPT !["manual"] = [l EXCEPT !.pc = "done"]]
         /\ UNCHANGED <<currentMeetings, filteredMeetings, dashboardStatistics,
                        tableRows, displayedStats, redirected, processed>>
    ELSE IF ~(ResponseOk(a) /\ Truthy(Prop(a.body, "success")))
    THEN /\ dashAlert' = "Sync failed"
         /\ loads' = [loads EXCEPT !["manual"] = [l EXCEPT !.pc = "done"]]
         /\ UNCHANGED <<currentMeetings, filteredMeetings, dashboardStatistics,
                        tableRows, displayedStats, redirected, processed>>
    ELSE IF Truthy(meetings) /\ IsArray(meetings)
    THEN /\ currentMeetings' = meetings.v
         /\ filteredMeetings' = Spread(currentMeetings')
         /\ dashboardStatistics' =
                IF Truthy(statistics) THEN statistics ELSE dashboardStatistics
         /\ tableRows' = filteredMeetings'
         /\ displayedStats' =
                updateDashboardStats(currentMeetings', dashboardStatistics')
         /\ dashAlert' = CompletionAlert("sync")
         /\ loads' = [loads EXCEPT !["manual"] = [l EXCEPT !.pc = "done"]]
         /\ processed' = Append(processed, "manual")
         /\ UNCHANGED redirected
    ELSE Waiting("manual", [l EXCEPT !.pc = "list", !.requests = 1])

\* The sync request is answered by some server and its body parsed
SyncAnswered ==
    /\ ~redirected /\ loads["manual"].pc = "sync"
    /\ \E a \in SyncAnswers : SyncAnswer(a)
    /\ UNCHANGED <<sessionIsAdmin, normVars, sheetVars, actVars, gateVars, statVars, submitVars,
                   pubVars, controlVars>>

\* The counters before updateDashboardStats wrote them
NoCounters == [total |-> Undef, pending |-> Undef, approved |-> Undef, thisWeek |-> Undef]

\* updateDashboardStats() called on the lists and statistics the page holds
UpdateDashboardStats ==
    /\ displayedStats = NoCounters
    /\ displayedStats' = updateDashboardStats(currentMeetings, dashboardStatistics)
    /\ UNCHANGED <<currentMeetings, filteredMeetings, dashboardStatistics, tableRows,
                   dashAlert, redirected, loads, processed>>
    /\ UNCHANGED <<sessionIsAdmin, normVars, sheetVars, actVars, gateVars, statVars, submitVars,
                   pubVars, controlVars>>

(***************************************************************************)
(* Requests to server.js, answered by two runs of the server that differ   *)
(* in the stored meetings only.                                            *)
(***************************************************************************)
\* What the server answers on an endpoint, given what its spreadsheet yields
EndpointResponse(endpoint, reply) ==
    IF endpoint = "health" THEN HealthResponse(sheetsId, reply)
    ELSE IF endpoint = "test-sheets-connection" THEN TestSheetsConnection(sheetsId, reply)
    ELSE GatedResponse(authenticateAdmin, sheetsId, reply)

BothRunsAnswer(endpoint) ==
    /\ publicRequest' = endpoint
    /\ publicResponse' = EndpointResponse(endpoint, sheetReply)
    /\ otherPublicResponse' = EndpointResponse(endpoint, otherSheetReply)
    /\ UNCHANGED otherSheetReply
    /\ UNCHANGED <<sessionIsAdmin, normVars, sheetVars, actVars, gateVars, statVars,
                   submitVars, dashVars, controlVars>>

\* GET /api/health
GetHealth == BothRunsAnswer("health")

\* GET /api/test-sheets-connection
GetTestSheetsConnection == BothRunsAnswer("test-sheets-connection")

\* A request to an endpoint behind authenticateAdmin
GetGated == \E endpoint \in GatedEndpoints : BothRunsAnswer(endpoint)

\* The first request of loadMeetings is answered by server.js
SheetsListAnswered(i) ==
    /\ ~redirected /\ loads[i].pc = "list"
    /\ LET r == GatedResponse(authenticateAdmin, sheetsId, sheetReply) IN
       FirstAnswer(i, Answer(r.status, r.body))
    /\ UNCHANGED <<sessionIsAdmin, normVars, sheetVars, actVars, gateVars, statVars, submitVars,
                   pubVars, controlVars>>

\* The sync request is answered by server.js and its body parsed
SheetsSyncAnswered ==
    /\ ~redirected /\ loads["manual"].pc = "sync"
    /\ LET r == SheetsSyncResponse(authenticateAdmin, sheetsId, sheetReply) IN
       SyncAnswer(Answer(r.status, r.body))
    /\ UNCHANGED <<sessionIsAdmin, normVars, sheetVars, actVars, gateVars, statVars, submitVars,
                   pubVars, controlVars>>

\* applyFilters(), run after the selects were set to the chosen values
ApplyFilters ==
    \E filters \in FilterChoices :
        /\ selectedFilters' = filters
        /\ filteredMeetings' = SelectSeq(currentMeetings, LAMBDA m : PassesFilters(m, filters))
        /\ tableRows' = filteredMeetings'
        /\ UNCHANGED <<currentMeetings, dashboardStatistics, displayedStats, dashAlert, redirected,
                       loads, processed, actionModal>>
        /\ UNCHANGED <<sessionIsAdmin, normVars, sheetVars, actVars, gateVars, statVars,
                       submitVars, pubVars>>

\* clearFilters()
ClearFilters ==
    /\ selectedFilters' = NoFilters
    /\ filteredMeetings' = currentMeetings
    /\ tableRows' = filteredMeetings'
    /\ UNCHANGED <<currentMeetings, dashboardStatistics, displayedStats, dashAlert, redirected,
                   loads, processed, actionModal>>
    /\ UNCHANGED <<sessionIsAdmin, normVars, sheetVars, actVars, gateVars, statVars,
                   submitVars, pubVars>>

\* renderMeetingsTable() draws a row for every record of filteredMeetings
RenderMeetingsTable ==
    /\ tableRows # filteredMeetings
    /\ tableRows' = filteredMeetings
    /\ UNCHANGED <<currentMeetings, filteredMeetings, dashboardStatistics, displayedStats,
                   dashAlert, redirected, loads, processed>>
    /\ UNCHANGED <<sessionIsAdmin, normVars, sheetVars, actVars, gateVars, statVars,
                   submitVars, pubVars, controlVars>>

\* A click on an approve, reject or reschedule button of a drawn row:
\* showActionModal(requestId, action)
ShowActionModal ==
    \E i \in 1..Len(tableRows), action \in ModalActions :
        /\ OffersControls(tableRows[i])
        /\ LET requestId == RowRequestId(tableRows[i]) IN
           actionModal' = IF FindMeeting(currentMeetings, requestId) = 0 THEN actionModal
                          ELSE [open |-> TRUE, requestId |-> requestId, action |-> action]
        /\ UNCHANGED <<sessionIsAdmin, normVars, sheetVars, actVars, gateVars, statVars,
                       submitVars, dashVars, pubVars, selectedFilters>>

\* closeActionModal()
CloseActionModal ==
    /\ actionModal.open
    /\ actionModal' = ModalClosed
    /\ UNCHANGED <<sessionIsAdmin, normVars, sheetVars, actVars, gateVars, statVars,
                   submitVars, dashVars, pubVars, selectedFilters>>

IdleFilters == selectedFilters = NoFilters /\ actionModal = ModalClosed

IdlePublic ==
    /\ otherSheetReply = SheetFailed
    /\ publicRequest = "none"
    /\ publicResponse = NoPublicResponse
    /\ otherPublicResponse = NoPublicResponse

IdleNormalizer ==
    /\ meetingsWebhook = FALSE
    /\ n8nReply = ReplyFailed
    /\ listResponse = NoResponse
    /\ webhookGets = 0

IdleSheets ==
    /\ sheetsId = FALSE
    /\ sheetReply = SheetFailed
    /\ fetchResult = NotFetched

IdleAction ==
    /\ now = 0
    /\ actionWebhook = FALSE
    /\ actionRequest = NoRequest
    /\ actionPosts = <<>>
    /\ actionResponse = 0
    /\ clientAlert = ""

IdleGate ==
    /\ adminEnv = [username |-> "admin", password |-> "secret"]
    /\ gateRequest = NoGateRequest
    /\ gateResponse = StatusOnly(0)

IdleStatistics ==
    /\ statInput = <<>>
    /\ statResult = NoStatistics

IdleSubmit ==
    /\ requestWebhook = FALSE
    /\ submitRequest = CompleteRequest
    /\ submitResponse = NoSubmission

\* The page right after initializeAdminDashboard, or after an earlier load
\* took the meetings of the parsed body
PageAfter(result) ==
    /\ currentMeetings = ClientMeetings(result)
    /\ filteredMeetings = currentMeetings
    /\ dashboardStatistics = ClientStatistics(result)
    /\ tableRows = filteredMeetings
    /\ displayedStats = updateDashboardStats(currentMeetings, dashboardStatistics)
    /\ dashAlert = ""
    /\ redirected = FALSE
    /\ loads = [i \in Invocations |-> IdleLoad]
    /\ processed = <<>>

IdleDashboard == PageAfter(Undef)

\* Payloads tried also without a session or without a configured webhook
ProbePayloads == {Null, Arr(<<recA, recB>>), Obj(<<KV("meetings", Arr(<<recA>>))>>)}

InitNormalizer ==
    /\ \/ n8nReply \in {ReplyOk(p) : p \in Scalars}
       \/ n8nReply \in {ReplyOk(p) : p \in BareArrays}
       \/ n8nReply \in {ReplyOk(p) : p \in FlatObjects(MaxProps)}
       \/ n8nReply \in {ReplyOk(p) : p \in JsonObjects}
       \/ n8nReply \in {ReplyOk(p) : p \in DoubleJson}
       \/ n8nReply \in {ReplyOk(p) : p \in AliasPayloads}
       \/ n8nReply = ReplyFailed
    /\ sessionIsAdmin \in BOOLEAN
    /\ meetingsWebhook \in BOOLEAN
    /\ (sessionIsAdmin /\ meetingsWebhook) \/ n8nReply.data \in ProbePayloads
    /\ listResponse = NoResponse
    /\ webhookGets = 0
    /\ IdleSheets /\ IdleAction /\ IdleGate /\ IdleStatistics /\ IdleSubmit /\ IdleDashboard
    /\ IdlePublic /\ IdleFilters

NextNormalizer == GetAdminMeetings \/ GetAdminMeetingsDenied

SpecNormalizer == InitNormalizer /\ [][NextNormalizer]_vars

InitDecoder ==
    /\ \/ \E h \in HeaderRows : \E rs \in SeqsUpTo(DataRows, MaxRows) :
             sheetReply = ApiReply(<<h>> \o rs)
       \/ \E ls \in SeqsUpTo(CsvLines, MaxRows) :
             sheetReply \in {CsvReply(<<CsvHeader>> \o ls), CsvReply(ls)}
       \/ sheetReply \in {ApiReply(<<>>), SheetFailed}
    /\ sheetsId \in BOOLEAN
    /\ sheetsId \/ Len(sheetReply.rows) <= 1
    /\ fetchResult = NotFetched
    /\ sessionIsAdmin = TRUE
    /\ IdleNormalizer /\ IdleAction /\ IdleGate /\ IdleStatistics /\ IdleSubmit /\ IdleDashboard
    /\ IdlePublic /\ IdleFilters

NextDecoder == FetchMeetingRequests \/ GetAdminMeetingsSheets

SpecDecoder == InitDecoder /\ [][NextDecoder]_vars

\* The action endpoint and the dashboard's action dialog
Init ==
    /\ sessionIsAdmin \in BOOLEAN
    /\ actionWebhook \in BOOLEAN
    /\ now = 0
    /\ actionRequest = NoRequest
    /\ actionPosts = <<>>
    /\ actionResponse = 0
    /\ clientAlert = ""
    /\ IdleNormalizer /\ IdleSheets /\ IdleGate /\ IdleStatistics /\ IdleSubmit /\ IdleDashboard
    /\ IdlePublic /\ IdleFilters

Next ==
    \/ Tick
    \/ ConfirmAction
    \/ DirectPost
    \/ PostAdminMeetingAction
    \/ ConfirmActionDone
    \/ DirectPostDone

Spec == Init /\ [][Next]_vars

\* Sessions: logins and logouts among requests to the gated endpoints
InitSession ==
    /\ sessionIsAdmin = FALSE
    /\ adminEnv \in AdminEnvs
    /\ gateRequest = NoGateRequest
    /\ gateResponse = StatusOnly(0)
    /\ meetingsWebhook = TRUE
    /\ n8nReply = ReplyOk(Arr(<<recA, recB>>))
    /\ listResponse = NoResponse
    /\ webhookGets = 0
    /\ actionWebhook = TRUE
    /\ now = 0
    /\ actionRequest = NoRequest
    /\ actionPosts = <<>>
    /\ actionResponse = 0
    /\ clientAlert = ""
    /\ IdleSheets /\ IdleStatistics /\ IdleSubmit /\ IdleDashboard
    /\ IdlePublic /\ IdleFilters

NextSession ==
    \/ PostAdminLogin
    \/ PostAdminLogout
    \/ GetAdminSession
    \/ GetAdminDashboard
    \/ PostAdminSyncN8n
    \/ GetAdminMeetings
    \/ GetAdminMeetingsDenied
    \/ DirectPost
    \/ PostAdminMeetingAction
    \/ DirectPostDone

SpecSession == InitSession /\ [][NextSession]_vars

\* The Statistics Aggregator applied to lists of records
InitStatistics ==
    /\ statInput \in StatLists
    /\ statResult = NoStatistics
    /\ sessionIsAdmin = FALSE
    /\ IdleNormalizer /\ IdleSheets /\ IdleAction /\ IdleGate /\ IdleSubmit /\ IdleDashboard
    /\ IdlePublic /\ IdleFilters

NextStatistics == GenerateStatistics

SpecStatistics == InitStatistics /\ [][NextStatistics]_vars

\* The endpoints that call the external workflow, with a workflow that
\* answers or fails
InitEndpoints ==
    /\ sessionIsAdmin \in BOOLEAN
    /\ requestWebhook \in BOOLEAN
    /\ submitRequest = CompleteRequest
    /\ submitResponse = NoSubmission
    /\ meetingsWebhook \in BOOLEAN
    /\ n8nReply \in {ReplyFailed, ReplyOk(Arr(<<recA, recB>>))}
    /\ listResponse = NoResponse
    /\ webhookGets = 0
    /\ actionWebhook = TRUE
    /\ now = 0
    /\ actionRequest = NoRequest
    /\ actionPosts = <<>>
    /\ actionResponse = 0
    /\ clientAlert = ""
    /\ IdleSheets /\ IdleGate /\ IdleStatistics /\ IdleDashboard
    /\ IdlePublic /\ IdleFilters

NextEndpoints ==
    \/ PostMeetingRequest
    \/ GetAdminMeetings
    \/ GetAdminMeetingsDenied
    \/ PostAdminSyncN8n
    \/ DirectPost
    \/ PostAdminMeetingAction
    \/ DirectPostDone

SpecEndpoints == InitEndpoints /\ [][NextEndpoints]_vars

\* The dashboard with a manual refresh or sync and the refresh of setInterval
\* in flight together, on a fresh page or on one that loaded a list before
EarlierBodies == {Undef, Arr(<<mtgQ>>)}

InitDashboard ==
    /\ \E result \in EarlierBodies : PageAfter(result)
    /\ sessionIsAdmin = TRUE
    /\ IdleNormalizer /\ IdleSheets /\ IdleAction /\ IdleGate /\ IdleStatistics
    /\ IdleSubmit
    /\ IdlePublic /\ IdleFilters

NextDashboard ==
    \/ StartSync
    \/ SyncAnswered
    \/ \E i \in Invocations :
          \/ StartRefresh(i)
          \/ ListAnswered(i)
          \/ RetryIssued(i)
          \/ RetryAnswered(i)
          \/ JsonParsed(i)
          \/ TestAnswered(i)

SpecDashboard == InitDashboard /\ [][NextDashboard]_vars

\* The dashboard with its filter controls in use
NextFilters ==
    \/ NextDashboard
    \/ ApplyFilters
    \/ ClearFilters

SpecFilters == InitDashboard /\ [][NextFilters]_vars

\* The dashboard's confirmAction with the refresh it starts, on a fresh page
\* or on one that loaded a list before
InitActionPage ==
    /\ sessionIsAdmin \in BOOLEAN
    /\ actionWebhook \in BOOLEAN
    /\ now = 0
    /\ actionRequest = NoRequest
    /\ actionPosts = <<>>
    /\ actionResponse = 0
    /\ clientAlert = ""
    /\ \E result \in EarlierBodies : PageAfter(result)
    /\ IdleNormalizer /\ IdleSheets /\ IdleGate /\ IdleStatistics /\ IdleSubmit
    /\ IdlePublic /\ IdleFilters

NextActionPage ==
    \/ ConfirmAction
    \/ PostAdminMeetingAction
    \/ ConfirmActionDone
    \/ \E i \in Invocations :
          \/ ListAnswered(i)
          \/ RetryIssued(i)
          \/ RetryAnswered(i)
          \/ JsonParsed(i)
          \/ TestAnswered(i)

SpecActionPage == InitActionPage /\ [][NextActionPage]_vars

\* updateDashboardStats on lists of decoded records, without and with a
\* statistics object
InitCounters ==
    /\ currentMeetings \in StatLists
    /\ filteredMeetings = currentMeetings
    /\ tableRows = currentMeetings
    /\ dashboardStatistics \in {Null, countsObj}
    /\ displayedStats = NoCounters
    /\ dashAlert = ""
    /\ redirected = FALSE
    /\ loads = [i \in Invocations |-> IdleLoad]
    /\ processed = <<>>
    /\ sessionIsAdmin = TRUE
    /\ IdleNormalizer /\ IdleSheets /\ IdleAction /\ IdleGate /\ IdleStatistics
    /\ IdleSubmit /\ IdlePublic /\ IdleFilters

NextCounters == UpdateDashboardStats

SpecCounters == InitCounters /\ [][NextCounters]_vars

\* Two runs of server.js over different spreadsheets, asked the same requests
StoredRow(id, status) == <<id, "Ann", "ann@x.com", "Demo", status>>

StoredSheets ==
    {ApiReply(<<CsvHeader, StoredRow("R1", "Approved")>>),
     ApiReply(<<CsvHeader, StoredRow("sheet_2", "Cancelled")>>),
     ApiReply(<<CsvHeader, StoredRow("R1", "Approved"), StoredRow("sheet_2", "")>>),
     ApiReply(<<CsvHeader>>),
     CsvReply(<<CsvHeader, StoredRow("R1", "")>>),
     SheetFailed}

InitPublic ==
    /\ sessionIsAdmin \in BOOLEAN
    /\ sheetsId \in BOOLEAN
    /\ sheetReply \in StoredSheets
    /\ otherSheetReply \in {r \in StoredSheets : r.kind = sheetReply.kind}
    /\ fetchResult = NotFetched
    /\ publicRequest = "none"
    /\ publicResponse = NoPublicResponse
    /\ otherPublicResponse = NoPublicResponse
    /\ IdleNormalizer /\ IdleAction /\ IdleGate /\ IdleStatistics /\ IdleSubmit
    /\ IdleDashboard /\ IdleFilters

NextPublic == GetHealth \/ GetTestSheetsConnection \/ GetGated

SpecPublic == InitPublic /\ [][NextPublic]_vars

\* The dashboard of an admin served by server.js, whose lists and statistics
\* come from the spreadsheet
InitSheetsPage ==
    /\ sessionIsAdmin = TRUE
    /\ sheetsId \in BOOLEAN
    /\ sheetReply \in StoredSheets
    /\ fetchResult = NotFetched
    /\ IdleDashboard
    /\ IdleNormalizer /\ IdleAction /\ IdleGate /\ IdleStatistics /\ IdleSubmit
    /\ IdlePublic /\ IdleFilters

NextSheetsPage ==
    \/ StartSync
    \/ SheetsSyncAnswered
    \/ \E i \in Invocations :
          \/ StartRefresh(i)
          \/ SheetsListAnswered(i)
          \/ JsonParsed(i)
          \/ TestAnswered(i)

SpecSheetsPage == InitSheetsPage /\ [][NextSheetsPage]_vars

\* The longest list a page of the table holds
MaxPageLen == 3

\* Records as the servers hand them on: with the id under requestId,
\* request_id or id, with and without a status, and decoded from a sheet row
\* whose status cell was empty
ControlRecords ==
    {mtgP, mtgQ, mtgR, recSnake,
     Obj(<<KV("id", Str("r8")), KV("status", Str("pending"))>> \o Person)}

\* The page when a load has assigned its lists and is about to draw them
InitControls ==
    /\ currentMeetings \in SeqsUpTo(ControlRecords, MaxPageLen)
    /\ filteredMeetings = currentMeetings
    /\ tableRows = <<>>
    /\ dashboardStatistics = Null
    /\ displayedStats = updateDashboardStats(currentMeetings, dashboardStatistics)
    /\ dashAlert = ""
    /\ redirected = FALSE
    /\ loads = [i \in Invocations |-> IdleLoad]
    /\ processed = <<>>
    /\ sessionIsAdmin = TRUE
    /\ IdleNormalizer /\ IdleSheets /\ IdleAction /\ IdleGate /\ IdleStatistics
    /\ IdleSubmit /\ IdlePublic /\ IdleFilters

NextControls == RenderMeetingsTable \/ ShowActionModal \/ CloseActionModal

SpecControls == InitControls /\ [][NextControls]_vars

\* The webhook variant answering the list request and the sync request of an
\* admin from the same reply of ADMIN_MEETINGS_WEBHOOK
InitCopies ==
    /\ \/ n8nReply \in {ReplyOk(p) : p \in Scalars}
       \/ n8nReply \in {ReplyOk(p) : p \in BareArrays}
       \/ n8nReply \in {ReplyOk(p) : p \in FlatObjects(MaxProps)}
       \/ n8nReply \in {ReplyOk(p) : p \in JsonObjects}
       \/ n8nReply = ReplyFailed
    /\ sessionIsAdmin = TRUE
    /\ meetingsWebhook = TRUE
    /\ listResponse = NoResponse
    /\ webhookGets = 0
    /\ IdleSheets /\ IdleAction /\ IdleGate /\ IdleStatistics /\ IdleSubmit /\ IdleDashboard
    /\ IdlePublic /\ IdleFilters

NextCopies == GetAdminMeetings \/ PostAdminSyncN8n

SpecCopies == InitCopies /\ [][NextCopies]_vars

(***************************************************************************)
(* Properties of the Response Normalizer (checked under SpecNormalizer).   *)
(***************************************************************************)

\* The handler answered an admin request after the webhook replied with a body
Served ==
    /\ listResponse.status # 0
    /\ sessionIsAdmin /\ meetingsWebhook /\ n8nReply.ok

payload == n8nReply.data

\* The payload is an object that the handler does not unwrap
Undescended(d) ==
    d.t = "obj" /\ ~(Truthy(Prop(d, "json")) /\ TypeofObject(Prop(d, "json")))

\* The known keys of d that hold an array
ArrayKeysOf(d) == {k \in KnownKeys : IsArray(Prop(d, k))}

\* C1: for a payload that is a bare array, or an object {K: [...]} with K
\* one of meetings, data, items, response, result (no nested json, no second
\* known array), the response's meetings are exactly the contained records
\* in their original order, in a success response.
C1_ExactRecords ==
    Served =>
        /\ IsArray(payload) =>
              listResponse.success /\ listResponse.meetings = payload.v
        /\ \A k \in KnownKeys :
              (Undescended(payload) /\ ArrayKeysOf(payload) = {k}) =>
                  listResponse.success /\ listResponse.meetings = Prop(payload, k).v

\* C1 witness: {result: [recB, recA]} answered with recB, recA in that order
C1_Witness ==
    /\ Served
    /\ payload = Obj(<<KV("result", Arr(<<recB, recA>>))>>)
    /\ listResponse.meetings = <<recB, recA>>

\* The value the chain runs on, as the claims describe it: the nested json
\* object (or array) when there is one, else the payload
Unwrapped(d) ==
    IF d.t = "obj" /\ Prop(d, "json").t \in {"obj", "arr"} THEN Prop(d, "json") ELSE d

KnownOrder == <<"meetings", "data", "items", "response", "result">>

\* Positions of KnownOrder whose key holds an array in a
ArrayPositions(a) == {i \in 1..Len(KnownOrder) : IsArray(Prop(a, KnownOrder[i]))}

Min(S) == CHOOSE x \in S : \A y \in S : x <= y

HasKey(a, key) == a.t = "obj" /\ \E i \in 1..Len(a.v) : a.v[i].k = key

\* Positions of the properties of a that hold a non-empty array whose first
\* element has a truthy requestId, userName or meetingPurpose
MeetingArraysTruthy(a) ==
    {i \in 1..Len(a.v) :
        /\ IsArray(a.v[i].v) /\ Len(a.v[i].v.v) > 0
        /\ \E key \in {"requestId", "userName", "meetingPurpose"} :
               Truthy(Prop(a.v[i].v.v[1], key))}

IsMarker(a) == IsStr(Prop(a, "message"), "Workflow was started")

\* The record list the priority order of the claim prescribes for a payload
PriorityAsClaimed(d) ==
    LET a == Unwrapped(d) IN
    IF IsArray(a) THEN a.v
    ELSE IF a.t # "obj" THEN <<>>
    ELSE IF ArrayPositions(a) # {} THEN Prop(a, KnownOrder[Min(ArrayPositions(a))]).v
    ELSE IF Truthy(Prop(a, "requestId")) \/ Truthy(Prop(a, "id")) THEN <<a>>
    ELSE IF MeetingArraysTruthy(a) # {} THEN a.v[Min(MeetingArraysTruthy(a))].v.v
    ELSE <<>>

\* C2: the response's meetings follow the fixed priority bare
\* array, nested json, meetings, data, items, response, result, single
\* record, auto-detected array, empty; an object with requestId or id and no
\* known array property yields the singleton of that object whatever its
\* other properties are.
C2_Priority ==
    Served => listResponse.meetings = PriorityAsClaimed(payload)

\* No shape of the normalizer matches the payload
NoStructure(d) ==
    LET a == Unwrapped(d) IN
    \/ a.t \notin {"obj", "arr"}
    \/ /\ a.t = "obj"
       /\ ArrayPositions(a) = {}
       /\ ~Truthy(Prop(a, "requestId")) /\ ~Truthy(Prop(a, "id"))
       /\ MeetingArraysTruthy(a) = {}

\* C3: the normalizer is total: every parsed upstream value is answered with
\* a success response (status 200, success true, no error), and when no
\* structure matches, as for {message: "Workflow was started"}, the record
\* list is empty.
C3_Total ==
    Served =>
        /\ listResponse.status = 200 /\ listResponse.success
        /\ listResponse.error = Undef
        /\ NoStructure(payload) => listResponse.meetings = <<>>
        /\ IsMarker(payload) /\ Len(payload.v) = 1 => listResponse.meetings = <<>>

\* C3 witness: an object whose array property holds null is answered with
\* an empty list in a success response
C3_Witness ==
    /\ Served
    /\ payload = Obj(<<KV("customData", Arr(<<Null>>))>>)
    /\ listResponse.success /\ listResponse.meetings = <<>>

\* C4: {json: X} is answered with the records of X, the records the
\* normalizer yields for X itself, for X an array or an object without a
\* json property; the descent is one level only: {json: {json: Y}} with Y an
\* object is not unwrapped twice.
C4_JsonUnwrap ==
    Served /\ payload.t = "obj" /\ Len(payload.v) = 1 /\ payload.v[1].k = "json" =>
        LET X == payload.v[1].v IN
        /\ (X.t \in {"obj", "arr"} /\ ~HasKey(X, "json")) =>
              listResponse.meetings = NormalizeResponse(X).meetings
        /\ (HasKey(X, "json") /\ Prop(X, "json").t = "obj") =>
              listResponse.meetings = <<>>

\* C4 witness: {json: {meetings: [recA, recB]}} answered with recA, recB
C4_Witness ==
    /\ Served
    /\ payload = Obj(<<KV("json", Obj(<<KV("meetings", Arr(<<recA, recB>>))>>))>>)
    /\ listResponse.meetings = <<recA, recB>>

\* The payload is an object of none of the known shapes: no nested json, no
\* known array property, no (truthy) requestId or id
NoKnownShape(d) ==
    /\ Undescended(d)
    /\ ArrayPositions(d) = {}
    /\ ~Truthy(Prop(d, "requestId")) /\ ~Truthy(Prop(d, "id"))

\* C5: for an object of none of the known shapes the response's
\* meetings are the first array property, in property order, that is
\* non-empty and whose first element has requestId, userName or
\* meetingPurpose.
C5_AutoDetect ==
    Served /\ NoKnownShape(payload) /\ MeetingArraysTruthy(payload) # {} =>
        listResponse.meetings = payload.v[Min(MeetingArraysTruthy(payload))].v.v


(***************************************************************************)
(* Properties of the Row Decoder (checked under SpecDecoder).              *)
(***************************************************************************)

\* fetchMeetingRequests returned what it decoded from the sheet's rows
Decoded == fetchResult.done /\ ~SheetRows(sheetsId, sheetReply).threw

sheetRows == SheetRows(sheetsId, sheetReply).rows

\* Every data row of the sheet decoded, valid or not, in sheet order
AllDecoded ==
    IF Len(sheetRows) = 0 THEN <<>>
    ELSE [i \in 1..(Len(sheetRows) - 1) |->
             DecodeRow(sheetRows[1], sheetRows[i + 1], i - 1)]

\* userName, userEmail and meetingPurpose are non-empty after trimming
ValidRecord(m) ==
    \A f \in {"userName", "userEmail", "meetingPurpose"} :
        Prop(m, f).t = "str" /\ Trim(Prop(m, f).v) # ""

\* Under the documented header row: the data rows (by position in the
\* sheet) whose name, email and purpose cells are non-blank after trimming
ValidPositions ==
    {i \in 2..Len(sheetRows) :
        \A c \in 2..4 : Trim(CellValue(sheetRows[i], c)) # ""}

StatusNames == {"pending", "approved", "rejected", "rescheduled"}

\* C7: every record fetchMeetingRequests returns has a status that is,
\* case-insensitively, one of pending, approved, rejected, rescheduled; a
\* blank, absent or unrecognized source status gives the default "Pending".
C7_StatusEnum ==
    fetchResult.done =>
        \A k \in 1..Len(fetchResult.meetings) :
            LET status == Prop(fetchResult.meetings[k], "status") IN
            status.t = "str" /\ ToLower(status.v) \in StatusNames

\* C8: no two records of a list fetchMeetingRequests returns share a
\* requestId, whatever the sheet holds.
C8_UniqueIds ==
    fetchResult.done =>
        \A i, j \in 1..Len(fetchResult.meetings) :
            i # j => Prop(fetchResult.meetings[i], "requestId")
                        # Prop(fetchResult.meetings[j], "requestId")

(***************************************************************************)
(* Properties of the action endpoint (checked under Spec).                 *)
(***************************************************************************)

\* The request under way was answered by the handler itself (the session
\* passed authenticateAdmin)
Handled == actionRequest.stage = "answered" /\ actionResponse # 401

\* requestId or action is missing, or the action is none of the three
InvalidBody(b) == b.requestId = "" \/ b.action = "" \/ b.action \notin validActions

\* Exactly one POST went to the action webhook, with the request's id and action
OnePostFor(b) ==
    /\ Len(actionPosts) = 1
    /\ actionPosts[1].requestId = b.requestId
    /\ actionPosts[1].action = b.action

\* C9: no POST goes to the action webhook for a reschedule request whose
\* newDate or newTime is missing or whose instant is not strictly after the
\* time the request was made, whether the request comes from confirmAction
\* or directly from an HTTP client.
C9_RescheduleChecked ==
    \A i \in 1..Len(actionPosts) :
        actionPosts[i].action = "reschedule" =>
            /\ actionPosts[i].newDate # "" /\ actionPosts[i].newTime # ""
            /\ InstantOf(actionPosts[i].newDate, actionPosts[i].newTime)
                   > actionRequest.sentAt

\* C10: a request without requestId, without action or with an action
\* outside approve, reject, reschedule is answered 400 with no POST to the
\* action webhook; any other request causes exactly one POST carrying its
\* requestId and action.
C10_ActionEndpoint ==
    Handled =>
        IF InvalidBody(actionRequest.body)
        THEN actionResponse = 400 /\ actionPosts = <<>>
        ELSE OnePostFor(actionRequest.body)

\* C10 amended: as C10, the one POST being issued when ADMIN_ACTION_WEBHOOK
\* is configured; when it is not, a valid request is answered 500 and no
\* POST is issued.
C10_ActionEndpointConfigured ==
    Handled =>
        IF InvalidBody(actionRequest.body)
        THEN actionResponse = 400 /\ actionPosts = <<>>
        ELSE IF actionWebhook
        THEN OnePostFor(actionRequest.body) /\ actionResponse \in {200, 500}
        ELSE actionResponse = 500 /\ actionPosts = <<>>

\* C10 witness: an approve request for R1 answered 200 after one POST
C10_Witness ==
    /\ Handled
    /\ actionRequest.body.action = "approve"
    /\ actionRequest.body.requestId = "R1"
    /\ actionResponse = 200
    /\ OnePostFor(actionRequest.body)

(***************************************************************************)
(* Properties of the session gate (checked under SpecSession).             *)
(***************************************************************************)

\* C11: in every step, a gated endpoint (list, action, sync, session,
\* dashboard) answering a session that is not admin answers 401 and makes no
\* outbound call; a session becomes admin only in a login step whose
\* username and password equal the configured ones; and a successful logout
\* leaves the session not admin.
C11_SessionGate ==
    [][ /\ (~sessionIsAdmin /\ (GetAdminMeetings \/ GetAdminMeetingsDenied)) =>
              listResponse' = Unauthorized /\ webhookGets' = 0
        /\ (~sessionIsAdmin /\ PostAdminMeetingAction) =>
              actionResponse' = 401 /\ actionPosts' = <<>>
        /\ (~sessionIsAdmin /\ PostAdminSyncN8n) =>
              gateResponse'.status = 401 /\ webhookGets' = 0
        /\ (~sessionIsAdmin /\ (GetAdminSession \/ GetAdminDashboard)) =>
              gateResponse'.status = 401 /\ UNCHANGED <<normVars, actVars>>
        /\ (~sessionIsAdmin /\ sessionIsAdmin') =>
              /\ PostAdminLogin
              /\ gateRequest'.username = adminEnv.username
              /\ gateRequest'.password = adminEnv.password
              /\ gateRequest'.username # "" /\ gateRequest'.password # ""
        /\ (PostAdminLogout /\ gateResponse'.status = 200) => ~sessionIsAdmin'
      ]_vars

\* C11 witness: after a login and a logout, a sync request on a server with a
\* configured webhook is answered 401 without a GET
C11_Witness ==
    /\ ~sessionIsAdmin
    /\ meetingsWebhook
    /\ gateRequest.endpoint = "sync-n8n"
    /\ ~gateRequest.wasAdmin
    /\ gateResponse.status = 401
    /\ webhookGets = 0
    /\ listResponse.status = 200

(***************************************************************************)
(* Properties of the list endpoint of the spreadsheet variant (checked     *)
(* under SpecDecoder).                                                     *)
(***************************************************************************)

\* The spreadsheet could not be read at all: the request for it failed, or
\* its CSV export holds no data
SheetUnreadable == sheetsId /\ SheetRows(sheetsId, sheetReply).threw

\* C12: when the external source fails totally, the list endpoint answers
\* without an error status, with an empty meeting list and an error
\* indicator (success false and an error message).
C12_FailureIsEmpty ==
    (listResponse # NoResponse /\ SheetUnreadable) =>
        /\ listResponse.status = 200
        /\ listResponse.meetings = <<>>
        /\ ~listResponse.success
        /\ Truthy(listResponse.error)

(***************************************************************************)
(* Properties of generateStatistics (checked under SpecStatistics).        *)
(***************************************************************************)

\* The status of record i of the input, lower-cased, pending when missing
StatusOf(i) ==
    IF Truthy(Prop(statInput[i], "status"))
    THEN ToLower(Prop(statInput[i], "status").v) ELSE "pending"

\* How many records of the input have that status
StatusCount(name) == Cardinality({i \in 1..Len(statInput) : StatusOf(i) = name})

\* C17: generateStatistics returns total equal to the number of records and
\* pending, approved, rejected, rescheduled equal to the number of records
\* with that status (case-insensitively, missing counting as pending); a
\* record with any other status changes nothing but total.
C17_Statistics ==
    statResult.done =>
        /\ statResult.stats.total = Len(statInput)
        /\ \A name \in {"pending", "approved", "rejected", "rescheduled"} :
              statResult.stats[name] = StatusCount(name)

(***************************************************************************)
(* Properties of the header table and of empty sheets (checked under       *)
(* SpecDecoder).                                                           *)
(***************************************************************************)

\* A header lower-cased and without underscores, for the headers of the model
HeaderKey(header) ==
    CASE header \in {"Request_ID", "requestId", "request_id", "REQUEST_ID"} -> "requestid"
      [] header \in {"User_Name", "userName", "user_name"} -> "username"
      [] header \in {"User_Email", "userEmail"} -> "useremail"
      [] header \in {"Meeting_Purpose", "meetingPurpose"} -> "meetingpurpose"
      [] header \in {"Status", "status", "STATUS"} -> "status"
      [] OTHER -> header

\* Two header rows that name the same columns up to case and underscores
SameColumns(h1, h2) ==
    Len(h1) = Len(h2) /\ \A i \in 1..Len(h1) : HeaderKey(h1[i]) = HeaderKey(h2[i])

\* C19: the decoded records do not depend on the spelling of the headers: a
\* sheet whose header row equals the documented one after lower-casing and
\* removing underscores decodes to the same records as with the documented
\* header row.
C19_HeaderInsensitive ==
    (Decoded /\ Len(sheetRows) > 0 /\ SameColumns(sheetRows[1], CsvHeader)) =>
        fetchResult.meetings = DecodeRows(<<CsvHeader>> \o Tail(sheetRows))

\* A row of the source with nothing in it
BlankRow(row) == \A j \in 1..Len(row) : Trim(Unquote(row[j])) = ""

\* The source was read and holds no rows or only blank rows
NoData ==
    /\ sheetsId /\ sheetReply.ok
    /\ \A i \in 1..Len(sheetReply.rows) : BlankRow(sheetReply.rows[i])

\* C20: when the spreadsheet yields no rows or only blank rows,
\* fetchMeetingRequests returns the empty list.
C20_EmptySheet == (fetchResult.done /\ NoData) => fetchResult.meetings = <<>>

(***************************************************************************)
(* Properties of the error statuses (checked under SpecEndpoints).         *)
(***************************************************************************)

\* C15: on a server whose webhooks are configured, an error status (4xx or
\* 5xx) is answered only for a validation failure or an authentication
\* failure: a complete meeting request, a list request, a valid action
\* request and a sync request of an admin session are never answered with an
\* error status, whatever the external workflow does.
C15_ErrorStatuses ==
    /\ (requestWebhook /\ submitResponse.status >= 400) =>
          Len(missingFields(submitRequest)) > 0
    /\ (listResponse.status >= 400) => listResponse.status = 401
    /\ (actionWebhook /\ actionRequest.stage = "answered" /\ actionResponse >= 400) =>
          actionResponse = 401 \/ InvalidBody(actionRequest.body)
    /\ (meetingsWebhook /\ gateRequest.endpoint = "sync-n8n"
            /\ gateResponse.status >= 400) =>
          gateResponse.status = 401

\* C13: with a manual refresh or sync and the automatic refresh in flight
\* together, currentMeetings, filteredMeetings and the drawn rows are always
\* one and the same list, that list is the list of a single response (or the
\* sample list, or the list shown before), and once both invocations are done
\* it is the list of the response that was processed last
LastProcessed == loads[processed[Len(processed)]]

SingleLists ==
    {ClientMeetings(result) : result \in EarlierBodies}
        \cup {getSampleMeetings}
        \cup {ClientMeetings(loads[i].result) : i \in Invocations}

C13_LastResponseWins ==
    /\ filteredMeetings = currentMeetings
    /\ tableRows = currentMeetings
    /\ currentMeetings \in SingleLists
    /\ ((\A i \in Invocations : loads[i].pc = "done") /\ processed # <<>>
           /\ LastProcessed.error = NoError)
          => currentMeetings = ClientMeetings(LastProcessed.result)

C13_Witness ==
    /\ \A i \in Invocations : loads[i].pc = "done"
    /\ processed = <<"manual", "auto">>
    /\ ClientMeetings(loads["manual"].result) = <<mtgQ, mtgP>>
    /\ currentMeetings = <<mtgP, mtgR>>
    /\ filteredMeetings = <<mtgP, mtgR>>
\* C14: one loadMeetings invocation requests the list endpoint at most twice;
\* the second request follows a first answer of 401 only, never a rejection
\* or another status; a retry answered 401 or rejected ends in the redirect
\* to /admin with no further request
C14_OneRetry ==
    \A i \in Invocations :
        LET l == loads[i] IN
        /\ l.requests <= 2
        /\ l.requests = 2 => (~l.first.failed /\ l.first.status = 401)
        /\ (l.first.failed \/ l.first.status \notin {0, 401}) => l.requests <= 1
        /\ (l.requests = 2 /\ l.pc = "done" /\ (l.answer.failed \/ l.answer.status = 401))
              => redirected
        /\ (l.requests = 2 /\ l.pc \notin {"retry", "done"})
              => ~(l.answer.failed \/ l.answer.status = 401)

C14_Witness ==
    /\ redirected
    /\ loads["auto"].requests = 2 /\ loads["auto"].pc = "done"
    /\ loads["auto"].first.status = 401 /\ loads["auto"].answer.status = 401
    /\ loads["manual"].requests = 1 /\ loads["manual"].first.status = 429
\* C16: after a load of the meetings that failed softly (the request was
\* rejected, the response was not ok, or parsing its body threw) the page
\* shows an alert and the table shows a list that is not empty
C16_FallbackList ==
    (processed # <<>> /\ LastProcessed.pc = "done" /\ LastProcessed.error # NoError)
        => (dashAlert # "" /\ tableRows # <<>>)
\* C18: the counters on the page: with a statistics object present, total,
\* pending and approved are its totalCount, pendingCount and approvedCount
\* (0 for a count it does not carry), not the counts of currentMeetings;
\* without one they are the length of currentMeetings and the numbers of its
\* records whose status is pending and approved; this week is in both cases
\* the number of records of currentMeetings whose timestamp lies in the
\* trailing seven days
StatisticsPresent == dashboardStatistics.t \in {"obj", "arr"}

SuppliedCount(key) ==
    LET count == Prop(dashboardStatistics, key) IN
    IF count.t = "undef" \/ count = Num(0) THEN Num(0) ELSE count

RecordsWithStatus(status) ==
    {i \in DOMAIN currentMeetings :
        Prop(currentMeetings[i], "status") = Str(status)}

RecordsOfThisWeek ==
    {i \in DOMAIN currentMeetings :
        LET timestamp == Prop(currentMeetings[i], "timestamp") IN
        /\ timestamp.t = "str" /\ timestamp.v # ""
        /\ DaysAgo(timestamp) \in 0..TrailingDays}

FieldAliases ==
    {[alias |-> "preferred_date", canonical |-> "preferredDate"],
     [alias |-> "preferred_time", canonical |-> "preferredTime"],
     [alias |-> "user_name", canonical |-> "userName"],
     [alias |-> "user_email", canonical |-> "userEmail"],
     [alias |-> "user_company", canonical |-> "userCompany"],
     [alias |-> "meeting_purpose", canonical |-> "meetingPurpose"],
     [alias |-> "meeting_description", canonical |-> "meetingDescription"],
     [alias |-> "meeting_type", canonical |-> "meetingType"],
     [alias |-> "request_id", canonical |-> "requestId"]}

CarriesOnlyAlias(record) ==
    \E a \in FieldAliases :
        Truthy(Prop(record, a.alias)) /\ ~Truthy(Prop(record, a.canonical))

C21_Aliased ==
    listResponse.status = 200 =>
        \A i \in 1..Len(listResponse.meetings) :
            ~CarriesOnlyAlias(listResponse.meetings[i])
\* C22: a request without an admin session gets the same response, apart
\* from the number of meetings found, from two runs of the server that differ
\* in the stored meetings only: no response to such a request carries a field
\* of a meeting record
WithoutCounts(response) ==
    [status |-> response.status,
     body |-> IF response.body.t = "obj"
              THEN Obj(SelectSeq(response.body.v, LAMBDA p : p.k # "meetingsFound"))
              ELSE response.body]

C22_NoMeetingData ==
    (~sessionIsAdmin /\ publicRequest # "none")
        => WithoutCounts(publicResponse) = WithoutCounts(otherPublicResponse)

\* C23: after a loadMeetings that succeeded, also one that consulted the test
\* endpoint, every record of currentMeetings has a non-empty userName,
\* userEmail and meetingPurpose
C23_ValidOnPage ==
    (processed # <<>> /\ LastProcessed.pc = "done" /\ LastProcessed.error = NoError)
        => \A i \in 1..Len(currentMeetings) : ValidRecord(currentMeetings[i])

\* C24: without a statistics object the counters updateDashboardStats writes
\* are the number of records of currentMeetings and the numbers of records
\* whose status is pending and approved in any letter case
RecordsWithStatusAnyCase(status) ==
    {i \in DOMAIN currentMeetings :
        LET st == Prop(currentMeetings[i], "status") IN
        st.t = "str" /\ ToLower(st.v) = status}

PageLists == <<currentMeetings, filteredMeetings, dashboardStatistics>>

C25_NoLocalMutation ==
    [][ /\ (ConfirmAction \/ PostAdminMeetingAction \/ ConfirmActionDone)
              => UNCHANGED PageLists
        /\ (ConfirmAction \/ PostAdminMeetingAction) => UNCHANGED loads
        /\ (ConfirmActionDone /\ actionResponse # 200) => UNCHANGED loads
        /\ PageLists' # PageLists
              => \E i \in Invocations :
                     /\ loads[i].pc \in {"list", "retry", "parse", "test"}
                     /\ loads'[i].pc = "done"
      ]_vars

C25_Witness ==
    /\ actionResponse = 200 /\ clientAlert = "success"
    /\ loads["manual"].pc = "done" /\ loads["manual"].error = NoError
    /\ currentMeetings = <<mtgP, mtgR>>

\* C26: once a load, refresh or sync has completed, dashboardStatistics is the
\* statistics of the response currentMeetings was taken from, null when that
\* response carried none or when the load failed
C26_StatisticsOfSameResponse ==
    (processed # <<>> /\ LastProcessed.pc = "done") =>
        dashboardStatistics =
            IF LastProcessed.error = NoError
            THEN ClientStatistics(LastProcessed.result)
            ELSE Null

\* C27: whatever was applied, cleared, refreshed or synchronized, filteredMeetings
\* is currentMeetings restricted to the selected status, priority and type
C27_FilteredBySelection ==
    filteredMeetings = SelectSeq(currentMeetings, LAMBDA m : PassesFilters(m, selectedFilters))

\* The statistics object of the body the last completed load or sync took
\* its list from
ServedStatistics == Prop(LastProcessed.result, "statistics")

\* C28: once a load or sync served by server.js succeeded, the counters total,
\* pending and approved on the page are the total, pending and approved of
\* the statistics generateStatistics computed for the returned list
C28_CountersOfServer ==
    (/\ processed # <<>>
     /\ LastProcessed.pc = "done"
     /\ LastProcessed.error = NoError
     /\ Truthy(ServedStatistics)) =>
        /\ ServedStatistics = StatsJson(generateStatistics(currentMeetings))
        /\ displayedStats.total = Prop(ServedStatistics, "total")
        /\ displayedStats.pending = Prop(ServedStatistics, "pending")
        /\ displayedStats.approved = Prop(ServedStatistics, "approved")

\* The status of a record is pending: missing, or pending in any letter case
PendingAnyCase(meeting) ==
    LET status == Prop(meeting, "status") IN
    ~Truthy(status) \/ (status.t = "str" /\ ToLower(status.v) = "pending")

\* C29: a drawn row offers the approve, reject and reschedule buttons exactly
\* when its record is pending (missing or in any letter case), and the lookup
\* of showActionModal finds the record of every row that offers them, so that
\* the dialog opens
C29_ControlsOfPending ==
    \A i \in 1..Len(tableRows) :
        LET meeting == tableRows[i] IN
        /\ OffersControls(meeting) <=> PendingAnyCase(meeting)
        /\ OffersControls(meeting) =>
               FindMeeting(currentMeetings, RowRequestId(meeting)) # 0

\* C30: once the list request and the sync request were both answered from
\* the same payload of the webhook, the two responses carry the same meetings
C30_CopiesAgree ==
    (/\ n8nReply.ok
     /\ listResponse # NoResponse
     /\ gateRequest = GateRequest("sync-n8n")) =>
        /\ listResponse.status = 200 /\ gateResponse.status = 200
        /\ listResponse.meetings = gateResponse.meetings

====
